---- MODULE Spec2Model ----
(***************************************************************************)
(* A model of src/compiler/transformers/module/system.ts: the transformer  *)
(* that lowers an ES module to a System.register call.                     *)
(*                                                                         *)
(* Syntax trees are records of one shape (kind, text, prop, num, mods,     *)
(* kids).  An optional value (a field that may be undefined) is a sequence *)
(* of length 0 or 1.                                                       *)
(***************************************************************************)
EXTENDS Integers, Sequences, FiniteSets, TLC

VARIABLES
    compilerOptions,               \* [target, isolatedModules] of the transformer instance
    currentSourceFile,             \* the per-file fields of transformSystemModule
    externalImports,
    exportSpecifiers,
    exportEquals,
    hasExportStars,
    exportFunctionForFile,
    contextObjectForFile,
    exportedLocalNames,
    exportedFunctionDeclarations,
    input,                         \* the file last handed to transformSourceFile
    output,                        \* what that call returned (or the fault it raised)
    filesTransformed,              \* how many files the instance has been handed
    rt                             \* the loader running the emitted module

fileVars == <<currentSourceFile, externalImports, exportSpecifiers, exportEquals,
              hasExportStars, exportFunctionForFile, contextObjectForFile,
              exportedLocalNames, exportedFunctionDeclarations>>
vars == <<compilerOptions, fileVars, input, output, filesTransformed, rt>>

-----------------------------------------------------------------------------
(* Bounds of the model. *)

\* longest source file (top-level statements) of the general pool
MaxStatements == 2
\* longest source file of the pool of import / re-export declarations
MaxImports == 3
\* how many files one transformer instance is handed
MaxFiles == 2
\* how often the emitter may substitute on one path of a tree before it gives up
\* how deep the patterns of the destructuring assignments nest
MaxPatternDepth == 2
MaxSubstitutions == 3

-----------------------------------------------------------------------------
(* Syntax trees. *)

None == <<>>
Some(v) == <<v>>
IsSome(o) == Len(o) = 1
Get(o) == o[1]

Node(kind, text, prop, num, mods, kids) ==
    [kind |-> kind, text |-> text, prop |-> prop, num |-> num, mods |-> mods, kids |-> kids]

Id(t) == Node("Identifier", t, "", 0, {}, <<>>)
\* an identifier whose text is a keyword (originalKeywordKind is set)
KeywordId(t) == Node("Identifier", t, "", 0, {"originalKeywordKind"}, <<>>)
\* an identifier the factory made (createIdentifier, createUniqueName, a generated
\* name): the resolver knows nothing about it
SynthId(t) == Node("Identifier", t, "", 0, {"synthesized"}, <<>>)
\* an identifier the checker has bound to an exported member of the namespace ns
MemberId(ns, t) == Node("Identifier", t, ns, 0, {}, <<>>)
Num(n) == Node("NumericLiteral", "", "", n, {}, <<>>)
Str(s) == Node("StringLiteral", s, "", 0, {}, <<>>)
True == Node("TrueKeyword", "true", "", 0, {}, <<>>)
Bin(op, l, r) == Node("BinaryExpression", op, "", 0, {}, <<l, r>>)
Prefix(op, e) == Node("PrefixUnaryExpression", op, "", 0, {}, <<e>>)
Postfix(op, e) == Node("PostfixUnaryExpression", op, "", 0, {}, <<e>>)
Call(callee, args) == Node("CallExpression", "", "", 0, {}, <<callee>> \o args)
PropertyAccess(e, name) == Node("PropertyAccessExpression", "", "", 0, {}, <<e, name>>)
ElementAccess(e, arg) == Node("ElementAccessExpression", "", "", 0, {}, <<e, arg>>)
ArrayLit(es) == Node("ArrayLiteralExpression", "", "", 0, {}, es)
ObjectLit(ps) == Node("ObjectLiteralExpression", "", "", 0, {}, ps)
\* text: the name; kids: the default, if there is one
ShorthandPropertyAssignment(name, default) ==
    Node("ShorthandPropertyAssignment", name, "", 0, {}, default)
SpreadElementExpression(e) == Node("SpreadElementExpression", "", "", 0, {}, <<e>>)
Conditional(cond, then, else) == Node("ConditionalExpression", "", "", 0, {}, <<cond, then, else>>)
VoidZero == Node("VoidExpression", "", "", 0, {}, <<Num(0)>>)
PropertyAssignment(name, init) == Node("PropertyAssignment", "", "", 0, {}, <<name, init>>)
If(cond, then) == Node("IfStatement", "", "", 0, {}, <<cond, then>>)
\* kids: the declaration list, the object, the body
ForIn(init, e, body) == Node("ForInStatement", "", "", 0, {}, <<init, e, body>>)
ForOf(init, e, body) == Node("ForOfStatement", "", "", 0, {}, <<init, e, body>>)
\* kids: the initializer, the condition, the incrementor, the body
For(init, cond, incr, body) == Node("ForStatement", "", "", 0, {}, <<init, cond, incr, body>>)
IfElse(cond, then, else) == Node("IfStatement", "", "", 0, {}, <<cond, then, else>>)
\* kids: the body, the condition
Do(body, cond) == Node("DoStatement", "", "", 0, {}, <<body, cond>>)
While(cond, body) == Node("WhileStatement", "", "", 0, {}, <<cond, body>>)
Labeled(label, body) == Node("LabeledStatement", label, "", 0, {}, <<body>>)
With(e, body) == Node("WithStatement", "", "", 0, {}, <<e, body>>)
\* kids: the expression, the case block
Switch(e, clauses) ==
    Node("SwitchStatement", "", "", 0, {}, <<e, Node("CaseBlock", "", "", 0, {}, clauses)>>)
\* kids: the expression, then the statements
CaseClause(e, ss) == Node("CaseClause", "", "", 0, {}, <<e>> \o ss)
DefaultClause(ss) == Node("DefaultClause", "", "", 0, {}, ss)
\* kids: the try block, the catch clause, the finally block
Try(block, catch, finally) == Node("TryStatement", "", "", 0, {}, <<block, catch, finally>>)
\* kids: the variable declaration, the block
CatchClause(name, block) ==
    Node("CatchClause", "", "", 0, {}, <<Node("VariableDeclaration", "", "", 0, {}, <<name>>), block>>)
ArrayBindingPattern(elements) == Node("ArrayBindingPattern", "", "", 0, {}, elements)
ObjectBindingPattern(elements) == Node("ObjectBindingPattern", "", "", 0, {}, elements)
\* kids: the name (an identifier or a pattern)
BindingElement(name) == Node("BindingElement", "", "", 0, {}, <<name>>)
VariableDeclarationList(decls) == Node("VariableDeclarationList", "", "", 0, {}, decls)
Omitted == Node("OmittedExpression", "", "", 0, {}, <<>>)
Block(ss) == Node("Block", "", "", 0, {}, ss)
Statement(e) == Node("ExpressionStatement", "", "", 0, {}, <<e>>)
Return(e) == Node("ReturnStatement", "", "", 0, {}, <<e>>)
Parameter(name) == Node("Parameter", "", "", 0, {}, <<name>>)
ParameterList(ps) == Node("Parameters", "", "", 0, {}, ps)
\* kids: the parameter list, then the body
FunctionExpression(mods, params, body) ==
    Node("FunctionExpression", "", "", 0, mods, <<ParameterList(params), body>>)
FunctionDeclaration(mods, name, params, body) ==
    Node("FunctionDeclaration", name, "", 0, mods, <<ParameterList(params), body>>)
ClassDeclaration(mods, name) == Node("ClassDeclaration", name, "", 0, mods, <<>>)
ClassExpression(name) == Node("ClassExpression", name, "", 0, {}, <<>>)
\* kids: the name, then the initializer if there is one
VariableDeclaration(name, init) == Node("VariableDeclaration", "", "", 0, {}, <<name>> \o init)
VariableStatement(mods, decls) == Node("VariableStatement", "", "", 0, mods, decls)
\* text: the module specifier; kids: the import clause if there is one
ImportDeclaration(specifier, clause) ==
    Node("ImportDeclaration", specifier, "", 0, {}, clause)
\* text: the default binding or ""; kids: the namespace import or the named imports
ImportClause(default, bindings) == Node("ImportClause", default, "", 0, {}, bindings)
NamespaceImport(name) == Node("NamespaceImport", name, "", 0, {}, <<>>)
NamedImports(specs) == Node("NamedImports", "", "", 0, {}, specs)
\* text: name; prop: propertyName or ""
ImportSpecifier(prop, name, mods) == Node("ImportSpecifier", name, prop, 0, mods, <<>>)
ImportEqualsDeclaration(name, specifier, mods) ==
    Node("ImportEqualsDeclaration", specifier, name, 0, mods, <<>>)
\* text: the module specifier or ""; kids: the export specifiers; mods: "exportClause"
ExportDeclaration(specifier, mods, specs) ==
    Node("ExportDeclaration", specifier, "", 0, mods, specs)
ExportSpecifier(prop, name, mods) == Node("ExportSpecifier", name, prop, 0, mods, <<>>)
ExportAssignment(mods, e) == Node("ExportAssignment", "", "", 0, mods, <<e>>)

HasModifier(node, m) == m \in node.mods

Undefined == Node("undefined", "", "", 0, {}, <<>>)
IsDefined(node) == node.kind # "undefined"

\* A source file: its statements carry their position in num (the node's identity).
SourceFile(fileName, moduleName, renamedDependencies, statements) ==
    [kind |-> "SourceFile", fileName |-> fileName, moduleName |-> moduleName,
     renamedDependencies |-> renamedDependencies,
     statements |-> [i \in 1..Len(statements) |-> [statements[i] EXCEPT !.num = i]]]

SeqsUpTo(S, n) == UNION {[1..k -> S] : k \in 0..n}

RECURSIVE Flatten(_)
Flatten(ss) == IF ss = <<>> THEN <<>> ELSE Head(ss) \o Flatten(Tail(ss))

Contains(ss, v) == \E i \in 1..Len(ss) : ss[i] = v

-----------------------------------------------------------------------------
(* The source programs the model transforms. *)

\* export var x = 5;
ExportVarX == VariableStatement({"Export"}, <<VariableDeclaration(Id("x"), <<Num(5)>>)>>)
\* var y;
VarY == VariableStatement({}, <<VariableDeclaration(Id("y"), <<>>)>>)
\* x = 7;
AssignX == Statement(Bin("=", Id("x"), Num(7)))
\* x += 2;
CompoundAssignX == Statement(Bin("+=", Id("x"), Num(2)))
\* y = x++;
PostIncrementX == Statement(Bin("=", Id("y"), Postfix("++", Id("x"))))
\* y = x--;
PostDecrementX == Statement(Bin("=", Id("y"), Postfix("--", Id("x"))))
\* y = ++x;
PreIncrementX == Statement(Bin("=", Id("y"), Prefix("++", Id("x"))))
\* y = --x;
PreDecrementX == Statement(Bin("=", Id("y"), Prefix("--", Id("x"))))
\* [x, y] = [3, 4];
DestructureX == Statement(Bin("=", ArrayLit(<<Id("x"), Id("y")>>), ArrayLit(<<Num(3), Num(4)>>)))
\* y = a;       (a read of whatever a is bound to)
ReadA == Statement(Bin("=", Id("y"), Id("a")))
\* import {a} from "dep";
ImportNamed == ImportDeclaration("dep", <<ImportClause("", <<NamedImports(<<ImportSpecifier("", "a", {})>>)>>)>>)
\* import {default as a} from "dep";
ImportKeyword ==
    ImportDeclaration("dep", <<ImportClause("", <<NamedImports(<<ImportSpecifier("default", "a", {"originalKeywordKind"})>>)>>)>>)
\* import {b as a} from "dep2";
ImportRenamed == ImportDeclaration("dep2", <<ImportClause("", <<NamedImports(<<ImportSpecifier("b", "a", {})>>)>>)>>)
\* import a from "dep";
ImportDefault == ImportDeclaration("dep", <<ImportClause("a", <<>>)>>)
\* import * as ns from "dep2";
ImportNamespace == ImportDeclaration("dep2", <<ImportClause("", <<NamespaceImport("ns")>>)>>)
\* import "dep";
ImportSideEffect == ImportDeclaration("dep", <<>>)
\* import r = require("dep");
ImportEquals == ImportEqualsDeclaration("r", "dep", {})
\* import r = require(<not a string literal>);
ImportEqualsNonLiteral == ImportEqualsDeclaration("r", "", {"nonLiteralSpecifier"})
\* export {b as c} from "dep2";
ExportNamedFrom == ExportDeclaration("dep2", {"exportClause"}, <<ExportSpecifier("b", "c", {"value"})>>)
\* export {x} from "dep";
ExportXFrom == ExportDeclaration("dep", {"exportClause"}, <<ExportSpecifier("", "x", {"value"})>>)
\* export * from "m";
ExportStar == ExportDeclaration("m", {}, <<>>)
\* export {y as z};
ExportLocal == ExportDeclaration("", {"exportClause"}, <<ExportSpecifier("y", "z", {"value"})>>)
\* export {T};     (T is a type: not a value)
ExportLocalType == ExportDeclaration("", {"exportClause"}, <<ExportSpecifier("", "T", {})>>)
\* export function f() { return a; }
ExportFunctionF == FunctionDeclaration({"Export"}, "f", <<>>, Block(<<Return(Id("a"))>>))
\* export default function g() { }
ExportDefaultFunctionG == FunctionDeclaration({"Export", "Default"}, "g", <<>>, Block(<<>>))
\* function h() { }
FunctionH == FunctionDeclaration({}, "h", <<>>, Block(<<>>))
\* export class C { }
ExportClassC == ClassDeclaration({"Export"}, "C")
\* export default class D { }
ExportDefaultClassD == ClassDeclaration({"Export", "Default"}, "D")
\* export default 1;
ExportDefaultExpression == ExportAssignment({"value"}, Num(1))
\* export = y;
ExportEqualsY == ExportAssignment({"isExportEquals", "value"}, Id("y"))

\* import * as a from "dep";
ImportNamespaceA == ImportDeclaration("dep", <<ImportClause("", <<NamespaceImport("a")>>)>>)
\* import a = require("dep");
ImportEqualsA == ImportEqualsDeclaration("a", "dep", {})

\* export {b as c} from "dep";
ExportRenamedFromDep == ExportDeclaration("dep", {"exportClause"}, <<ExportSpecifier("b", "c", {"value"})>>)

\* class E { }
ClassE == ClassDeclaration({}, "E")
\* export default T;     (T is a type: not a value)
ExportDefaultType == ExportAssignment({}, Id("T"))

\* var z = 1;  function n() { }  class K { }    (as nested statements)
VarZ == VariableStatement({}, <<VariableDeclaration(Id("z"), <<Num(1)>>)>>)
FunctionN == FunctionDeclaration({}, "n", <<>>, Block(<<>>))
ClassK == ClassDeclaration({}, "K")
\* { var z = 1; }
BlockWithVar == Block(<<VarZ>>)
\* if (y) { var z = 1; } else { function n() { } }
IfWithDeclarations == IfElse(Id("y"), Block(<<VarZ>>), Block(<<FunctionN>>))
\* while (y) { var z = 1; }
WhileWithVar == While(Id("y"), Block(<<VarZ>>))
\* do { class K { } } while (y);
DoWithClass == Do(Block(<<ClassK>>), Id("y"))
\* l: { function n() { } }
LabeledWithFunction == Labeled("l", Block(<<FunctionN>>))
\* with (y) { var z = 1; }
WithWithVar == With(Id("y"), Block(<<VarZ>>))
\* for (var i = 0, j; ; ) { var z = 1; }
ForWithDeclarations ==
    For(VariableDeclarationList(<<VariableDeclaration(Id("i"), <<Num(0)>>), VariableDeclaration(Id("j"), <<>>)>>),
        Omitted, Omitted, Block(<<VarZ>>))
\* for (var k in y) { var z = 1; }
ForInWithDeclarations ==
    ForIn(VariableDeclarationList(<<VariableDeclaration(Id("k"), <<>>)>>), Id("y"), Block(<<VarZ>>))
\* for (var k of y) { class K { } }
ForOfWithDeclarations ==
    ForOf(VariableDeclarationList(<<VariableDeclaration(Id("k"), <<>>)>>), Id("y"), Block(<<ClassK>>))
\* switch (y) { case 1: var z = 1; default: function n() { } }
SwitchWithDeclarations ==
    Switch(Id("y"), <<CaseClause(Num(1), <<VarZ>>), DefaultClause(<<FunctionN>>)>>)
\* try { var z = 1; } catch (e) { class K { } } finally { function n() { } }
TryWithDeclarations ==
    Try(Block(<<VarZ>>), CatchClause(Id("e"), Block(<<ClassK>>)), Block(<<FunctionN>>))
\* while (y) { l: { try { var z = 1; } finally { } } }
DeeplyNestedVar ==
    While(Id("y"), Block(<<Labeled("l", Block(<<Try(Block(<<VarZ>>), Undefined, Block(<<>>))>>))>>))
\* function h() { var z = 1; }
FunctionWithVar == FunctionDeclaration({}, "h", <<>>, Block(<<VarZ>>))

\* export var u;
ExportVarU == VariableStatement({"Export"}, <<VariableDeclaration(Id("u"), <<>>)>>)
\* export var p = 1, q, r = 2;
ExportVarPQR ==
    VariableStatement({"Export"}, <<VariableDeclaration(Id("p"), <<Num(1)>>),
                                    VariableDeclaration(Id("q"), <<>>),
                                    VariableDeclaration(Id("r"), <<Num(2)>>)>>)
\* var v, w;
VarVW == VariableStatement({}, <<VariableDeclaration(Id("v"), <<>>), VariableDeclaration(Id("w"), <<>>)>>)
\* var [a, b] = y;
VarPattern ==
    VariableStatement({}, <<VariableDeclaration(
        ArrayBindingPattern(<<BindingElement(Id("a")), BindingElement(Id("b"))>>), <<Id("y")>>)>>)
\* export var {c, d: [e]} = y, m = 3;
ExportVarPattern ==
    VariableStatement({"Export"},
        <<VariableDeclaration(
              ObjectBindingPattern(<<BindingElement(Id("c")),
                                     BindingElement(ArrayBindingPattern(<<BindingElement(Id("e"))>>))>>),
              <<Id("y")>>),
          VariableDeclaration(Id("m"), <<Num(3)>>)>>)

\* the statements of the general pool
SourceElements ==
    { ExportVarX, VarY, AssignX, CompoundAssignX, PostIncrementX, PostDecrementX,
      PreIncrementX, PreDecrementX, DestructureX,
      ImportNamed, ExportXFrom, ExportStar, ExportFunctionF, ExportDefaultFunctionG }

\* the statements of the pool of import and re-export declarations
ImportElements ==
    { ImportNamed, ImportRenamed, ImportSideEffect, ExportStar }

\* the statements of the pool of reads of a name that an import may bind
ReadElements ==
    { ImportNamed, ImportKeyword, ImportRenamed, ImportDefault, ImportNamespaceA, ImportEqualsA,
      ReadA, VarY }

NoRenames == {}
Files == { SourceFile("a.ts", None, NoRenames, ss) : ss \in SeqsUpTo(SourceElements, MaxStatements) }
ImportFiles ==
    { SourceFile("b.ts", None, rn, ss) :
        rn \in {NoRenames, {[from |-> "dep2", to |-> "dep"]}},
        ss \in SeqsUpTo(ImportElements, MaxImports) }
ReadFiles == { SourceFile("c.ts", None, NoRenames, ss) : ss \in SeqsUpTo(ReadElements, MaxStatements) }

\* the statements of the pool of entries a setter is made of
SetterElements ==
    { ImportNamed, ImportEquals, ImportSideEffect, ExportRenamedFromDep, ExportStar }
SetterFiles == { SourceFile("d.ts", None, NoRenames, ss) : ss \in SeqsUpTo(SetterElements, MaxImports) }

\* the rename tables a source file may carry
RenameTables ==
    { NoRenames,
      {[from |-> "dep2", to |-> "dep"]},
      {[from |-> "dep2", to |-> "lib"], [from |-> "m", to |-> "lib"]} }
RenamedFiles ==
    { SourceFile("e.ts", None, rn, ss) : rn \in RenameTables, ss \in SeqsUpTo(ImportElements, MaxImports) }

\* the statements of the pool of export forms
ExportElements ==
    { ExportStar, ExportNamedFrom, ExportLocal, ExportLocalType, ExportVarX,
      ExportFunctionF, ExportDefaultFunctionG, FunctionH,
      ExportClassC, ExportDefaultClassD, ClassE,
      ExportDefaultExpression, ExportDefaultType, ExportEqualsY }
ExportFiles == { SourceFile("f.ts", None, NoRenames, ss) : ss \in SeqsUpTo(ExportElements, MaxStatements) }

\* the statements of the pool of declarations nested in other statements
NestedElements ==
    { BlockWithVar, IfWithDeclarations, WhileWithVar, DoWithClass, LabeledWithFunction,
      WithWithVar, ForWithDeclarations, ForInWithDeclarations, ForOfWithDeclarations,
      SwitchWithDeclarations, TryWithDeclarations, DeeplyNestedVar, FunctionWithVar, ExportVarX }
NestedFiles == { SourceFile("g.ts", None, NoRenames, ss) : ss \in SeqsUpTo(NestedElements, MaxStatements) }
\* the statements of the pool of variable statements
VariableElements ==
    { ExportVarX, VarY, VarZ, ExportVarU, ExportVarPQR, VarVW, VarPattern, ExportVarPattern, AssignX }
VariableFiles == { SourceFile("h.ts", None, NoRenames, ss) : ss \in SeqsUpTo(VariableElements, MaxStatements) }

\* the body of `namespace N { export var z; ... }` as it reaches the transformer:
\* (function (N) { ... })(N)
NamespaceBody(statements) ==
    Statement(Call(FunctionExpression({}, <<Parameter(Id("N"))>>, Block(statements)), <<Id("N")>>))
\* namespace N { export var z; z = 1; }
NamespaceAssign == NamespaceBody(<<Statement(Bin("=", MemberId("N", "z"), Num(1)))>>)
\* namespace N { export var z; z += 1; }
NamespaceCompoundAssign == NamespaceBody(<<Statement(Bin("+=", MemberId("N", "z"), Num(1)))>>)
\* namespace N { export var z; y = z++; }
NamespacePostfix ==
    NamespaceBody(<<Statement(Bin("=", Id("y"), Postfix("++", MemberId("N", "z"))))>>)
\* namespace N { export var z; [z, y] = [3, 4]; }
NamespaceDestructure ==
    NamespaceBody(<<Statement(Bin("=", ArrayLit(<<MemberId("N", "z"), Id("y")>>),
                                  ArrayLit(<<Num(3), Num(4)>>)))>>)
\* namespace N { export var z; [...z] = y; }
NamespaceRest ==
    NamespaceBody(<<Statement(Bin("=", ArrayLit(<<SpreadElementExpression(MemberId("N", "z"))>>), Id("y")))>>)

\* the statements of the pool of namespace members and exported variables
NamespaceElements ==
    { ExportVarX, VarY, AssignX, PostIncrementX, DestructureX,
      NamespaceAssign, NamespaceCompoundAssign, NamespacePostfix, NamespaceDestructure, NamespaceRest }
NamespaceFiles ==
    { SourceFile("j.ts", None, NoRenames, ss) : ss \in SeqsUpTo(NamespaceElements, MaxStatements) }

\* export {x, T, y as c};    (what x, T and y denote is up to the rest of the file)
ExportSeveral ==
    ExportDeclaration("", {"exportClause"},
        <<ExportSpecifier("", "x", {}), ExportSpecifier("", "T", {}), ExportSpecifier("y", "c", {})>>)
\* export {a, a as b, h as default};    (a is an alias of a value)
ExportAliases ==
    ExportDeclaration("", {"exportClause"},
        <<ExportSpecifier("", "a", {"value"}), ExportSpecifier("a", "b", {"value"}),
          ExportSpecifier("h", "default", {})>>)

\* the statements of the pool of local export declarations
SpecifierElements ==
    { ExportLocal, ExportLocalType, ExportSeveral, ExportAliases,
      VarY, ExportVarX, FunctionH, ImportNamed }
SpecifierFiles ==
    { SourceFile("k.ts", None, NoRenames, ss) : ss \in SeqsUpTo(SpecifierElements, MaxStatements) }

\* the statements of the pool of files that fault and files that are no modules
FaultElements == { ImportEqualsNonLiteral, ImportNamed, ExportVarX, VarY, AssignX }
FaultFiles ==
    { SourceFile("l.ts", None, NoRenames, ss) : ss \in SeqsUpTo(FaultElements, MaxStatements) }

\* "use strict";
UseStrict == Statement(Str("use strict"))

\* the statements of the pool of files with prologue directives and module names
ShapeElements == { UseStrict, ExportVarX, AssignX, FunctionH, ImportNamed, VarY }
ShapeFiles ==
    { SourceFile("m.ts", moduleName, NoRenames, ss) :
        moduleName \in {None, Some("app")}, ss \in SeqsUpTo(ShapeElements, MaxStatements) }

\* the leaves of the assignment patterns: x is exported by the file, y is not
PatternLeaves == {Id("x"), Id("y")}

\* the elements of an array pattern over the targets T: a target, a target with a
\* default, the rest of the array into a target
ArrayElementsOver(T) ==
    T \cup {Bin("=", t, Num(0)) : t \in T} \cup {SpreadElementExpression(t) : t \in T}

\* the properties of an object pattern over the targets T
ObjectElementsOver(T) ==
    {ShorthandPropertyAssignment(l.text, <<>>) : l \in PatternLeaves}
    \cup {ShorthandPropertyAssignment(l.text, <<Num(0)>>) : l \in PatternLeaves}
    \cup {PropertyAssignment(Id("a"), t) : t \in T}
    \cup {PropertyAssignment(Id("a"), Bin("=", t, Num(0))) : t \in T}

PatternsOver(T) ==
    {ArrayLit(<<e>>) : e \in ArrayElementsOver(T)} \cup {ObjectLit(<<e>>) : e \in ObjectElementsOver(T)}

RECURSIVE Patterns(_)
\* the patterns of one element that nest at most depth deep
Patterns(depth) ==
    IF depth = 0 THEN {} ELSE PatternsOver(PatternLeaves \cup Patterns(depth - 1))

\* patterns of two elements, the first of which is not exported
PatternsOfTwo ==
    {ArrayLit(<<Id("y"), e>>) : e \in ArrayElementsOver(PatternLeaves)}
    \cup {ObjectLit(<<ShorthandPropertyAssignment("y", <<>>), e>>) : e \in ObjectElementsOver(PatternLeaves)}

\* export var x = 5;  <pattern> = y;
DestructuringFiles ==
    { SourceFile("i.ts", None, NoRenames, <<ExportVarX, Statement(Bin("=", p, Id("y")))>>) :
        p \in Patterns(MaxPatternDepth) \cup PatternsOfTwo }

-----------------------------------------------------------------------------
(* The resolver service and the name generator, as the transformer consumes them. *)

\* the simple names a top-level statement declares
DeclaredNames(stmt) ==
    CASE stmt.kind = "VariableStatement" ->
            {stmt.kids[i].kids[1].text : i \in 1..Len(stmt.kids)}
      [] stmt.kind \in {"FunctionDeclaration", "ClassDeclaration"} -> {stmt.text} \ {""}
      [] OTHER -> {}

\* getReferencedExportContainer: the kind of the container an identifier is exported
\* from, or none; an exported function or class has a local binding of its own and
\* is not reported; for an exported member of a namespace the container is the
\* namespace declaration
getReferencedExportContainer(file, name) ==
    IF ~HasModifier(name, "synthesized") /\ name.prop # ""
    THEN Some("ModuleDeclaration")
    ELSE IF
       /\ ~HasModifier(name, "synthesized")
       /\ \E i \in 1..Len(file.statements) :
              /\ file.statements[i].kind = "VariableStatement"
              /\ HasModifier(file.statements[i], "Export")
              /\ name.text \in DeclaredNames(file.statements[i])
    THEN Some("SourceFile")
    ELSE None

\* the import bindings a statement introduces: [declaration, importDeclaration]
ImportBindings(stmt) ==
    CASE stmt.kind = "ImportEqualsDeclaration" ->
            <<[name |-> stmt.prop, declaration |-> stmt, importDeclaration |-> stmt]>>
      [] stmt.kind = "ImportDeclaration" /\ stmt.kids # <<>> ->
            LET clause == stmt.kids[1]
                named == IF clause.kids # <<>> /\ clause.kids[1].kind = "NamedImports"
                         THEN clause.kids[1].kids ELSE <<>>
            IN  (IF clause.text # ""
                 THEN <<[name |-> clause.text, declaration |-> clause, importDeclaration |-> stmt]>>
                 ELSE <<>>)
                \o (IF clause.kids # <<>> /\ clause.kids[1].kind = "NamespaceImport"
                    THEN <<[name |-> clause.kids[1].text, declaration |-> clause.kids[1],
                            importDeclaration |-> stmt]>>
                    ELSE <<>>)
                \o [i \in 1..Len(named) |->
                        [name |-> named[i].text, declaration |-> named[i], importDeclaration |-> stmt]]
      [] OTHER -> <<>>

\* getReferencedImportDeclaration: the import binding an identifier refers to, with
\* the import declaration it sits in (its parent chain), or none
getReferencedImportDeclaration(file, name) ==
    LET all == Flatten([i \in 1..Len(file.statements) |-> ImportBindings(file.statements[i])])
        hits == SelectSeq(all, LAMBDA b : b.name = name.text)
    IN  IF hits = <<>> \/ HasModifier(name, "synthesized") THEN None ELSE Some(hits[1])

\* isValueAliasDeclaration: the alias the node declares resolves to a value
isValueAliasDeclaration(node) == HasModifier(node, "value")

\* getReferencedValueDeclaration: the name refers to a variable, function or class
\* the file declares
getReferencedValueDeclaration(file, name) ==
    \E i \in 1..Len(file.statements) : name.text \in DeclaredNames(file.statements[i])

getGeneratedNameForNode(node) ==
    IF node.kind \in {"ImportDeclaration", "ExportDeclaration", "ImportEqualsDeclaration"}
    THEN SynthId(node.text \o "_" \o ToString(node.num))
    ELSE SynthId("default_" \o ToString(node.num))

createUniqueName(base) == SynthId(base \o "_1")

\* isExternalModule: the file has an import or an export
isExternalModule(file) ==
    \E i \in 1..Len(file.statements) :
        \/ file.statements[i].kind \in {"ImportDeclaration", "ImportEqualsDeclaration",
                                        "ExportDeclaration", "ExportAssignment"}
        \/ HasModifier(file.statements[i], "Export")

-----------------------------------------------------------------------------
(* The per-file state, threaded through the worker as one record. *)

StateOf(csf, ei, es, ee, hes, eff, cof, eln, efd) ==
    [currentSourceFile |-> csf, externalImports |-> ei, exportSpecifiers |-> es,
     exportEquals |-> ee, hasExportStars |-> hes, exportFunctionForFile |-> eff,
     contextObjectForFile |-> cof, exportedLocalNames |-> eln,
     exportedFunctionDeclarations |-> efd,
     hoistedVariables |-> <<>>, hoistedFunctions |-> <<>>, fault |-> ""]

\* the state of a transformer on which no file has been transformed yet
FreshState == StateOf(None, None, None, None, None, None, None, None, None)

OrEmpty(o) == IF IsSome(o) THEN Get(o) ELSE <<>>

\* hoistVariableDeclaration of the lexical environment: once per name
hoistVariableDeclaration(st, name) ==
    IF Contains(st.hoistedVariables, name) THEN st
    ELSE [st EXCEPT !.hoistedVariables = Append(@, name)]

hoistFunctionDeclaration(st, node) == [st EXCEPT !.hoistedFunctions = Append(@, node)]

\* endLexicalEnvironment: the hoisted variables in one statement, then the functions
endLexicalEnvironment(st) ==
    (IF st.hoistedVariables = <<>> THEN <<>>
     ELSE <<VariableStatement({}, [i \in 1..Len(st.hoistedVariables) |->
                                       VariableDeclaration(st.hoistedVariables[i], <<>>)])>>)
    \o st.hoistedFunctions

recordExportName(st, name) ==
    [st EXCEPT !.exportedLocalNames = Some(Append(OrEmpty(@), name))]

getDeclarationName(node) ==
    IF node.text # "" THEN Id(node.text) ELSE getGeneratedNameForNode(node)

ExporterOf(st) == IF IsSome(st.exportFunctionForFile) THEN Get(st.exportFunctionForFile) ELSE Undefined

createExportExpression(st, name, value) ==
    LET exportName == IF name.kind = "Identifier" THEN Str(name.text) ELSE name
    IN  Call(ExporterOf(st), <<exportName, value>>)

createExportStatement(st, name, value) == Statement(createExportExpression(st, name, value))

createDeclarationExport(st, node) ==
    LET declarationName == getDeclarationName(node)
        exportName == IF HasModifier(node, "Default") THEN Str("default") ELSE declarationName
    IN  createExportStatement(st, exportName, declarationName)

recordExportedFunctionDeclaration(st, node) ==
    [st EXCEPT !.exportedFunctionDeclarations =
        Some(Append(OrEmpty(@), createDeclarationExport(st, node)))]

-----------------------------------------------------------------------------
(* Module Info Collector and Dependency Grouper. *)

HasModuleSpecifier(node) == node.kind = "ExportDeclaration" /\ node.text # ""
HasExportClause(node) == HasModifier(node, "exportClause")

IsExternalImport(stmt) ==
    \/ stmt.kind \in {"ImportDeclaration", "ImportEqualsDeclaration"}
    \/ HasModuleSpecifier(stmt)

\* collectExternalModuleInfo: one scan of the top-level statements
collectExternalModuleInfo(node) ==
    LET locals == SelectSeq(node.statements,
                            LAMBDA s : s.kind = "ExportDeclaration" /\ ~HasModuleSpecifier(s))
        equals == SelectSeq(node.statements,
                            LAMBDA s : s.kind = "ExportAssignment" /\ HasModifier(s, "isExportEquals"))
    IN  [externalImports |-> SelectSeq(node.statements, IsExternalImport),
         exportSpecifiers |-> Flatten([i \in 1..Len(locals) |-> locals[i].kids]),
         exportEquals |-> IF equals = <<>> THEN None ELSE Some(equals[1]),
         hasExportStars |-> \E i \in 1..Len(node.statements) :
                                /\ HasModuleSpecifier(node.statements[i])
                                /\ ~HasExportClause(node.statements[i])]

\* tryRenameExternalModule: the renamed specifier, if the file's table has one
tryRenameExternalModule(st, moduleName) ==
    LET table == Get(st.currentSourceFile).renamedDependencies
    IN  IF \E r \in table : r.from = moduleName.text
        THEN Some(Str((CHOOSE r \in table : r.from = moduleName.text).to))
        ELSE None

\* getExternalModuleNameLiteral that never consults the rename table
getExternalModuleNameLiteralUnrenamed(st, importNode) ==
    IF ~HasModifier(importNode, "nonLiteralSpecifier")
    THEN Some(Str(importNode.text))
    ELSE None

\* getExternalModuleNameLiteral: undefined (None) unless the specifier is a string literal
getExternalModuleNameLiteral(st, importNode) ==
    IF ~HasModifier(importNode, "nonLiteralSpecifier")
    THEN LET moduleName == Str(importNode.text)
             renamed == tryRenameExternalModule(st, moduleName)
         IN  IF IsSome(renamed) THEN renamed ELSE Some(moduleName)
    ELSE None

\* one turn of the loop of collectDependencyGroups, on an entry whose specifier text
\* is known: acc is [groupIndices, dependencyGroups]
GroupEntryNoDedupe(acc, externalImport, externalModuleName) ==
    [groupIndices |-> acc.groupIndices,
     dependencyGroups |-> Append(acc.dependencyGroups,
                                 [name |-> externalModuleName, externalImports |-> <<externalImport>>])]

GroupEntry(acc, externalImport, externalModuleName) ==
    LET text == externalModuleName.text
    IN  IF \E e \in acc.groupIndices : e.text = text
        THEN LET groupIndex == (CHOOSE e \in acc.groupIndices : e.text = text).index
             IN  [acc EXCEPT !.dependencyGroups[groupIndex].externalImports = Append(@, externalImport)]
        ELSE [groupIndices |-> acc.groupIndices \cup
                                   {[text |-> text, index |-> Len(acc.dependencyGroups) + 1]},
              dependencyGroups |-> Append(acc.dependencyGroups,
                                          [name |-> externalModuleName,
                                           externalImports |-> <<externalImport>>])]

RECURSIVE GroupLoop(_, _, _, _)
GroupLoop(st, imports, i, acc) ==
    IF i > Len(imports) THEN [dependencyGroups |-> acc.dependencyGroups, fault |-> ""]
    ELSE LET externalModuleName == getExternalModuleNameLiteral(st, imports[i])
         IN  IF ~IsSome(externalModuleName)
             THEN [dependencyGroups |-> acc.dependencyGroups,
                   fault |-> "TypeError: externalModuleName is undefined"]
             ELSE GroupLoop(st, imports, i + 1, GroupEntry(acc, imports[i], Get(externalModuleName)))

\* collectDependencyGroups: [dependencyGroups, fault]
collectDependencyGroups(st, imports) ==
    GroupLoop(st, imports, 1, [groupIndices |-> {}, dependencyGroups |-> <<>>])

getNameOfDependencyGroup(dependencyGroup) == dependencyGroup.name

\* isDefaultImport: an import declaration whose clause has a default binding
isDefaultImport(node) ==
    node.kind = "ImportDeclaration" /\ node.kids # <<>> /\ node.kids[1].text # ""

\* getNamespaceDeclarationNode: the import-equals itself, or the namespace import
getNamespaceDeclarationName(node) ==
    CASE node.kind = "ImportEqualsDeclaration" -> Some(node.prop)
      [] /\ node.kind = "ImportDeclaration" /\ node.kids # <<>>
         /\ node.kids[1].kids # <<>> /\ node.kids[1].kids[1].kind = "NamespaceImport" ->
            Some(node.kids[1].kids[1].text)
      [] OTHER -> None

\* getLocalNameForExternalImport: the alias variable of an entry, or undefined (None)
getLocalNameForExternalImport(node) ==
    LET namespaceDeclaration == getNamespaceDeclarationName(node)
    IN  CASE IsSome(namespaceDeclaration) /\ ~isDefaultImport(node) ->
                Some(SynthId(Get(namespaceDeclaration)))
          [] node.kind = "ImportDeclaration" /\ node.kids # <<>> ->
                Some(getGeneratedNameForNode(node))
          [] HasModuleSpecifier(node) -> Some(getGeneratedNameForNode(node))
          [] OTHER -> None

getLocalNameTextForExternalImport(node) ==
    LET name == getLocalNameForExternalImport(node)
    IN  IF IsSome(name) THEN Some(Get(name).text) ELSE None

-----------------------------------------------------------------------------
(* Statement Rewriter.  A visitor returns [st, out]: the state after it and the   *)
(* statements that replace the visited node.  A loop that hands the result of    *)
(* one step to the next tests r = r before it goes on: TLC evaluates a           *)
(* definition when it is first used, and the test has the step evaluated there   *)
(* and not inside the steps that follow, which keeps the evaluation shallow.     *)

Visited(st, out) == [st |-> st, out |-> out]

createAssignment(left, right) == Bin("=", left, right)

RECURSIVE inlineExpressions(_)
\* inlineExpressions: one expression, or the expressions joined by commas
inlineExpressions(expressions) ==
    IF Len(expressions) = 1 THEN expressions[1]
    ELSE Bin(",", inlineExpressions(SubSeq(expressions, 1, Len(expressions) - 1)),
             expressions[Len(expressions)])

IsBindingPattern(name) == name.kind \in {"ObjectBindingPattern", "ArrayBindingPattern"}

RECURSIVE hoistBindingElement(_, _, _)
RECURSIVE hoistBindingElements(_, _, _)
hoistBindingElement(st, node, isExported) ==
    LET name == node.kids[1]
    IN  CASE name.kind = "Identifier" ->
                LET st1 == hoistVariableDeclaration(st, Id(name.text))
                IN  IF isExported THEN recordExportName(st1, name) ELSE st1
          [] IsBindingPattern(name) -> hoistBindingElements(st, name.kids, isExported)
          [] OTHER -> st
hoistBindingElements(st, elements, isExported) ==
    IF elements = <<>> THEN st
    ELSE LET st1 == hoistBindingElement(st, Head(elements), isExported)
         IN  IF st1 = st1 THEN hoistBindingElements(st1, Tail(elements), isExported)
             ELSE st

\* flattenVariableDestructuringToExpression: one assignment per bound element,
\* reading the initializer by position
flattenVariableDestructuringToExpression(node) ==
    LET elements == node.kids[1].kids
        value == IF Len(node.kids) >= 2 THEN node.kids[2] ELSE Omitted
    IN  inlineExpressions([i \in 1..Len(elements) |->
            createAssignment(elements[i].kids[1], ElementAccess(value, Num(i - 1)))])

\* transformVariable that hoists the names of a declaration only once it has
\* found an initializer
transformVariableHoistingInitializedOnly(st, node, isExported) ==
    LET st1 == hoistBindingElement(st, node, isExported)
        name == node.kids[1]
    IN  IF Len(node.kids) < 2 THEN [st |-> st, expression |-> None]
        ELSE IF name.kind = "Identifier"
        THEN [st |-> st1, expression |-> Some(createAssignment(name, node.kids[2]))]
        ELSE [st |-> st1, expression |-> Some(flattenVariableDestructuringToExpression(node))]

\* transformVariable: [st, expression]; the expression is None for a declaration
\* without initializer
transformVariable(st, node, isExported) ==
    LET st1 == hoistBindingElement(st, node, isExported)
        name == node.kids[1]
    IN  IF Len(node.kids) < 2 THEN [st |-> st1, expression |-> None]
        ELSE IF name.kind = "Identifier"
        THEN [st |-> st1, expression |-> Some(createAssignment(name, node.kids[2]))]
        ELSE [st |-> st1, expression |-> Some(flattenVariableDestructuringToExpression(node))]

RECURSIVE transformVariables(_, _, _, _)
transformVariables(st, declarations, isExported, expressions) ==
    IF declarations = <<>> THEN [st |-> st, expressions |-> expressions]
    ELSE LET r == transformVariable(st, Head(declarations), isExported)
         IN  IF r = r
             THEN transformVariables(r.st, Tail(declarations), isExported,
                                     expressions \o r.expression)
             ELSE [st |-> st, expressions |-> expressions]

visitVariableStatement(st, node) ==
    LET isExported == HasModifier(node, "Export")
        r == transformVariables(st, node.kids, isExported, <<>>)
    IN  IF Len(r.expressions) > 0
        THEN Visited(r.st, <<Statement(inlineExpressions(r.expressions))>>)
        ELSE Visited(r.st, <<>>)

\* visitFunctionDeclaration that leaves the export statement in place of the
\* declaration instead of queuing it
visitFunctionDeclarationExportingInPlace(st, node) ==
    IF HasModifier(node, "Export")
    THEN LET name == IF node.text # "" THEN Id(node.text) ELSE getGeneratedNameForNode(node)
             clone == [FunctionDeclaration({}, name.text, node.kids[1].kids, node.kids[2])
                           EXCEPT !.num = node.num]
         IN  Visited(hoistFunctionDeclaration(recordExportName(st, name), clone),
                     <<createDeclarationExport(st, clone)>>)
    ELSE Visited(hoistFunctionDeclaration(st, node), <<>>)

\* The clone that replaces an exported function declaration has no modifiers, and it
\* is the clone whose Default modifier is then tested.
visitFunctionDeclaration(st, node) ==
    IF HasModifier(node, "Export")
    THEN LET name == IF node.text # "" THEN Id(node.text) ELSE getGeneratedNameForNode(node)
             clone == [FunctionDeclaration({}, name.text, node.kids[1].kids, node.kids[2])
                           EXCEPT !.num = node.num]
             st1 == recordExportedFunctionDeclaration(st, clone)
             st2 == IF ~HasModifier(clone, "Default") THEN recordExportName(st1, name) ELSE st1
         IN  Visited(hoistFunctionDeclaration(st2, clone), <<>>)
    ELSE Visited(hoistFunctionDeclaration(st, node), <<>>)

\* visitClassDeclaration that records the name of a default export too
visitClassDeclarationRecordingDefault(st, node) ==
    LET name == getDeclarationName(node)
        st1 == hoistVariableDeclaration(st, name)
        assignment == Statement(createAssignment(name, ClassExpression(node.text)))
    IN  IF HasModifier(node, "Export")
        THEN LET st2 == recordExportName(st1, name)
             IN  Visited(st2, <<assignment, createDeclarationExport(st2, node)>>)
        ELSE Visited(st1, <<assignment>>)

visitClassDeclaration(st, node) ==
    LET name == getDeclarationName(node)
        st1 == hoistVariableDeclaration(st, name)
        assignment == Statement(createAssignment(name, ClassExpression(node.text)))
    IN  IF HasModifier(node, "Export")
        THEN LET st2 == IF ~HasModifier(node, "Default") THEN recordExportName(st1, name) ELSE st1
             IN  Visited(st2, <<assignment, createDeclarationExport(st2, node)>>)
        ELSE Visited(st1, <<assignment>>)

RECURSIVE visitNestedNode(_, _)
RECURSIVE visitNestedNodes(_, _, _, _)
RECURSIVE visitEachChild(_, _, _)

\* visitNode: the node that stands where the visited one stood: the single result,
\* several results lifted into a block, or nothing
VisitedNode(out) ==
    IF out = <<>> THEN Undefined ELSE IF Len(out) = 1 THEN out[1] ELSE Block(out)

\* the clone of node whose kid k is what the visit r left
WithKid(node, k, r) == Visited(r.st, <<[node EXCEPT !.kids[k] = VisitedNode(r.out)]>>)

\* the clone of node whose kids after the first `keep` are the statements the
\* visit r left
WithKids(node, keep, r) == Visited(r.st, <<[node EXCEPT !.kids = SubSeq(@, 1, keep) \o r.out]>>)

\* visitNodes(nodes, visitNestedNode) from position start on; r is the visit of
\* the node at that position
AfterNestedNode(r, nodes, start, out) ==
    IF r = r THEN visitNestedNodes(r.st, nodes, start + 1, out \o r.out) ELSE r
visitNestedNodes(st, nodes, start, out) ==
    IF start > Len(nodes) THEN Visited(st, out)
    ELSE AfterNestedNode(visitNestedNode(st, nodes[start]), nodes, start, out)

\* visitEachChild(node, visitNestedNode) of a node whose children are single
\* nodes; r is the visit of child k
AfterChild(r, node, k) ==
    IF r = r THEN visitEachChild(r.st, [node EXCEPT !.kids[k] = VisitedNode(r.out)], k + 1)
    ELSE r
visitEachChild(st, node, k) ==
    IF k > Len(node.kids) THEN Visited(st, <<node>>)
    ELSE AfterChild(visitNestedNode(st, node.kids[k]), node, k)

\* createFor: a new node with the initializer made of the transformed variables r
ForOfTransformedVariables(node, r) ==
    WithKid(For(IF Len(r.expressions) > 0 THEN inlineExpressions(r.expressions) ELSE Omitted,
                node.kids[2], node.kids[3], node.kids[4]),
            4, visitNestedNode(r.st, node.kids[4]))

visitForStatement(st, node) ==
    IF node.kids[1].kind = "VariableDeclarationList"
    THEN ForOfTransformedVariables(node, transformVariables(st, node.kids[1].kids, FALSE, <<>>))
    ELSE visitEachChild(st, node, 1)

\* transformForBinding: [st, expression]
transformForBinding(st, node) ==
    [st |-> hoistBindingElement(st, node.kids[1], FALSE),
     expression |-> IF node.kids[1].kids[1].kind = "Identifier" THEN node.kids[1].kids[1]
                    ELSE flattenVariableDestructuringToExpression(node.kids[1])]

ForOfBinding(node, b) ==
    WithKid([node EXCEPT !.kids[1] = b.expression], 3, visitNestedNode(b.st, node.kids[3]))

visitForInStatement(st, node) ==
    IF node.kids[1].kind = "VariableDeclarationList"
    THEN ForOfBinding(node, transformForBinding(st, node.kids[1]))
    ELSE visitEachChild(st, node, 1)

visitForOfStatement(st, node) ==
    IF node.kids[1].kind = "VariableDeclarationList"
    THEN ForOfBinding(node, transformForBinding(st, node.kids[1]))
    ELSE visitEachChild(st, node, 1)

visitDoStatement(st, node) == WithKid(node, 1, visitNestedNode(st, node.kids[1]))
visitWhileStatement(st, node) == WithKid(node, 2, visitNestedNode(st, node.kids[2]))
visitLabeledStatement(st, node) == WithKid(node, 1, visitNestedNode(st, node.kids[1]))
visitWithStatement(st, node) == WithKid(node, 2, visitNestedNode(st, node.kids[2]))
visitSwitchStatement(st, node) == WithKid(node, 2, visitNestedNode(st, node.kids[2]))
visitCaseBlock(st, node) == WithKids(node, 0, visitNestedNodes(st, node.kids, 1, <<>>))
visitCaseClause(st, node) == WithKids(node, 1, visitNestedNodes(st, node.kids, 2, <<>>))
visitDefaultClause(st, node) == WithKids(node, 0, visitNestedNodes(st, node.kids, 1, <<>>))
visitTryStatement(st, node) == visitEachChild(st, node, 1)
visitCatchClause(st, node) == WithKid(node, 2, visitNestedNode(st, node.kids[2]))
visitBlock(st, node) == WithKids(node, 0, visitNestedNodes(st, node.kids, 1, <<>>))

\* there is no case for an if statement: it is returned as it is
visitNestedNode(st, node) ==
    CASE node.kind = "VariableStatement" -> visitVariableStatement(st, node)
      [] node.kind = "FunctionDeclaration" -> visitFunctionDeclaration(st, node)
      [] node.kind = "ClassDeclaration" -> visitClassDeclaration(st, node)
      [] node.kind = "ForStatement" -> visitForStatement(st, node)
      [] node.kind = "ForInStatement" -> visitForInStatement(st, node)
      [] node.kind = "ForOfStatement" -> visitForOfStatement(st, node)
      [] node.kind = "DoStatement" -> visitDoStatement(st, node)
      [] node.kind = "WhileStatement" -> visitWhileStatement(st, node)
      [] node.kind = "LabeledStatement" -> visitLabeledStatement(st, node)
      [] node.kind = "WithStatement" -> visitWithStatement(st, node)
      [] node.kind = "SwitchStatement" -> visitSwitchStatement(st, node)
      [] node.kind = "CaseBlock" -> visitCaseBlock(st, node)
      [] node.kind = "CaseClause" -> visitCaseClause(st, node)
      [] node.kind = "DefaultClause" -> visitDefaultClause(st, node)
      [] node.kind = "TryStatement" -> visitTryStatement(st, node)
      [] node.kind = "CatchClause" -> visitCatchClause(st, node)
      [] node.kind = "Block" -> visitBlock(st, node)
      [] OTHER -> Visited(st, <<node>>)

visitImportDeclaration(st, node) ==
    IF node.kids # <<>> /\ Contains(OrEmpty(st.externalImports), node)
    THEN Visited(hoistVariableDeclaration(st, Get(getLocalNameForExternalImport(node))), <<>>)
    ELSE Visited(st, <<>>)

visitImportEqualsDeclaration(st, node) ==
    IF Contains(OrEmpty(st.externalImports), node)
    THEN Visited(hoistVariableDeclaration(st, Get(getLocalNameForExternalImport(node))), <<>>)
    ELSE Visited(st, <<>>)

\* visitExportSpecifier that records the exported name before it asks whether the
\* specifier denotes a value
visitExportSpecifierRecordingEveryName(st, specifier) ==
    LET st1 == recordExportName(st, Id(specifier.text))
    IN  IF \/ getReferencedValueDeclaration(Get(st.currentSourceFile),
                   Id(IF specifier.prop # "" THEN specifier.prop ELSE specifier.text))
           \/ isValueAliasDeclaration(specifier)
        THEN Visited(st1, <<createExportStatement(st1, Id(specifier.text),
                              Id(IF specifier.prop # "" THEN specifier.prop ELSE specifier.text))>>)
        ELSE Visited(st1, <<>>)

\* visitExportSpecifier: an export statement for a specifier that denotes a value
visitExportSpecifier(st, specifier) ==
    IF \/ getReferencedValueDeclaration(Get(st.currentSourceFile),
               Id(IF specifier.prop # "" THEN specifier.prop ELSE specifier.text))
       \/ isValueAliasDeclaration(specifier)
    THEN LET st1 == recordExportName(st, Id(specifier.text))
         IN  Visited(st1, <<createExportStatement(st1, Id(specifier.text),
                              Id(IF specifier.prop # "" THEN specifier.prop ELSE specifier.text))>>)
    ELSE Visited(st, <<>>)

RECURSIVE visitExportSpecifiers(_, _, _)
visitExportSpecifiers(st, specifiers, out) ==
    IF specifiers = <<>> THEN Visited(st, out)
    ELSE LET r == visitExportSpecifier(st, Head(specifiers))
         IN  IF r = r THEN visitExportSpecifiers(r.st, Tail(specifiers), out \o r.out)
             ELSE Visited(st, out)

visitExportDeclaration(st, node) ==
    IF ~HasModuleSpecifier(node) THEN visitExportSpecifiers(st, node.kids, <<>>)
    ELSE Visited(st, <<>>)

\* visitExportAssignment that does not ask whether the operand is a value
visitExportAssignmentOfAnyOperand(st, node) ==
    IF ~HasModifier(node, "isExportEquals")
    THEN Visited(st, <<createExportStatement(st, Str("default"), node.kids[1])>>)
    ELSE Visited(st, <<>>)

visitExportAssignment(st, node) ==
    IF ~HasModifier(node, "isExportEquals") /\ isValueAliasDeclaration(node)
    THEN Visited(st, <<createExportStatement(st, Str("default"), node.kids[1])>>)
    ELSE Visited(st, <<>>)

visitSourceElement(st, node) ==
    CASE node.kind = "ImportDeclaration" -> visitImportDeclaration(st, node)
      [] node.kind = "ImportEqualsDeclaration" -> visitImportEqualsDeclaration(st, node)
      [] node.kind = "ExportDeclaration" -> visitExportDeclaration(st, node)
      [] node.kind = "ExportAssignment" -> visitExportAssignment(st, node)
      [] OTHER -> visitNestedNode(st, node)

RECURSIVE visitNodes(_, _, _, _)
\* visitNodes over the statements from position start on
visitNodes(st, nodes, start, out) ==
    IF start > Len(nodes) THEN Visited(st, out)
    ELSE LET r == visitSourceElement(st, nodes[start])
         IN  IF r = r THEN visitNodes(r.st, nodes, start + 1, out \o r.out)
             ELSE Visited(st, out)

-----------------------------------------------------------------------------
(* Expression Substitutor: the hook the transformer registers for identifiers,   *)
(* binary expressions and postfix unary expressions.  st is the per-file state   *)
(* at the time of the call, file the source file the expression comes from.      *)

EnabledSubstitutionKinds == {"Identifier", "BinaryExpression", "PostfixUnaryExpression"}

AssignmentOperators == {"=", "+=", "-="}
isAssignmentOperator(op) == op \in AssignmentOperators

setNodeEmitFlags(node, flag) == [node EXCEPT !.mods = @ \cup {flag}]

TypeError(what) == Node("TypeError", what, "", 0, {}, <<>>)

\* createImportBinding: alias.name, or alias["name"] for a keyword under ES3; a
\* binding that is neither an import clause nor an import specifier leaves name
\* undefined, and reading name.originalKeywordKind faults
createImportBinding(options, binding) ==
    LET importDeclaration == binding.declaration
        importAlias == getGeneratedNameForNode(binding.importDeclaration)
        name == CASE importDeclaration.kind = "ImportClause" -> Some(KeywordId("default"))
                  [] importDeclaration.kind = "ImportSpecifier" ->
                        Some(Node("Identifier",
                                  IF importDeclaration.prop # "" THEN importDeclaration.prop
                                  ELSE importDeclaration.text,
                                  "", 0, importDeclaration.mods \cap {"originalKeywordKind"}, <<>>))
                  [] OTHER -> None
    IN  IF ~IsSome(name) THEN TypeError("name is undefined")
        ELSE IF HasModifier(Get(name), "originalKeywordKind") /\ options.target = "ES3"
        THEN ElementAccess(importAlias, Str(Get(name).text))
        ELSE PropertyAccess(importAlias, Get(name))

substituteExpressionIdentifier(options, file, node) ==
    LET importDeclaration == getReferencedImportDeclaration(file, node)
    IN  IF IsSome(importDeclaration) THEN createImportBinding(options, Get(importDeclaration))
        ELSE node

isExportedBinding(file, name) ==
    LET container == getReferencedExportContainer(file, name)
    IN  IsSome(container) /\ Get(container) = "SourceFile"

IsDestructuringPattern(node) ==
    node.kind \in {"Identifier", "ObjectLiteralExpression", "ArrayLiteralExpression"}

RECURSIVE hasExportedReferenceInDestructuringPattern(_, _)
RECURSIVE hasExportedReferenceInDestructuringElement(_, _)

hasExportedReferenceInDestructuringElement(file, node) ==
    CASE node.kind = "BinaryExpression" ->
            /\ node.text = "="
            /\ IsDestructuringPattern(node.kids[1])
            /\ hasExportedReferenceInDestructuringPattern(file, node.kids[1])
      [] node.kind = "Identifier" -> isExportedBinding(file, node)
      [] node.kind = "SpreadElementExpression" ->
            node.kids[1].kind = "Identifier" /\ isExportedBinding(file, node.kids[1])
      [] IsDestructuringPattern(node) -> hasExportedReferenceInDestructuringPattern(file, node)
      [] OTHER -> FALSE

hasExportedReferenceInObjectDestructuringElement(file, node) ==
    CASE node.kind = "ShorthandPropertyAssignment" -> isExportedBinding(file, Id(node.text))
      [] node.kind = "PropertyAssignment" ->
            hasExportedReferenceInDestructuringElement(file, node.kids[2])
      [] OTHER -> FALSE

hasExportedReferenceInArrayDestructuringElement(file, node) ==
    IF node.kind = "SpreadElementExpression"
    THEN node.kids[1].kind = "Identifier" /\ isExportedBinding(file, node.kids[1])
    ELSE hasExportedReferenceInDestructuringElement(file, node)

hasExportedReferenceInDestructuringPattern(file, node) ==
    CASE node.kind = "Identifier" -> isExportedBinding(file, node)
      [] node.kind = "ObjectLiteralExpression" ->
            \E i \in 1..Len(node.kids) :
                hasExportedReferenceInObjectDestructuringElement(file, node.kids[i])
      [] node.kind = "ArrayLiteralExpression" ->
            \E i \in 1..Len(node.kids) :
                hasExportedReferenceInArrayDestructuringElement(file, node.kids[i])
      [] OTHER -> FALSE

\* flattenDestructuringAssignment (needsValue): a temporary takes the value, one
\* assignment per element reads it, and the temporary is the result
RECURSIVE FlattenTarget(_, _)
\* the assignments one target of a pattern flattens to, given the expression that
\* reads its value: a default is taken when the value is undefined, a rest element
\* takes the rest of the array, a nested pattern is flattened in its turn
FlattenTarget(target, value) ==
    CASE target.kind = "BinaryExpression" /\ target.text = "=" ->
            FlattenTarget(target.kids[1],
                Conditional(Bin("===", value, VoidZero), target.kids[2], value))
      [] target.kind = "ArrayLiteralExpression" ->
            Flatten([i \in 1..Len(target.kids) |->
                IF target.kids[i].kind = "SpreadElementExpression"
                THEN FlattenTarget(target.kids[i].kids[1],
                        Call(PropertyAccess(value, Id("slice")), <<Num(i - 1)>>))
                ELSE FlattenTarget(target.kids[i], ElementAccess(value, Num(i - 1)))])
      [] target.kind = "ObjectLiteralExpression" ->
            Flatten([i \in 1..Len(target.kids) |->
                IF target.kids[i].kind = "ShorthandPropertyAssignment"
                THEN FlattenTarget(
                        IF target.kids[i].kids = <<>> THEN Id(target.kids[i].text)
                        ELSE Bin("=", Id(target.kids[i].text), target.kids[i].kids[1]),
                        PropertyAccess(value, Id(target.kids[i].text)))
                ELSE FlattenTarget(target.kids[i].kids[2],
                        ElementAccess(value, target.kids[i].kids[1]))])
      [] OTHER -> <<createAssignment(target, value)>>

flattenDestructuringAssignment(node) ==
    LET temp == SynthId("_a")
    IN  inlineExpressions(<<createAssignment(temp, node.kids[2])>>
            \o FlattenTarget(node.kids[1], temp)
            \o <<temp>>)

substituteDestructuring(node) == flattenDestructuringAssignment(node)

\* substituteAssignmentExpression with the flag left off the node
substituteAssignmentExpressionUnflagged(st, file, node) ==
    LET left == node.kids[1]
    IN  CASE left.kind = "Identifier" /\ IsSome(getReferencedExportContainer(file, left)) ->
                createExportExpression(st, left, node)
          [] /\ left.kind \in {"ObjectLiteralExpression", "ArrayLiteralExpression"}
             /\ hasExportedReferenceInDestructuringPattern(file, left) ->
                substituteDestructuring(node)
          [] OTHER -> node

substituteAssignmentExpression(st, file, node) ==
    LET flagged == setNodeEmitFlags(node, "NoSubstitution")
        left == flagged.kids[1]
    IN  CASE left.kind = "Identifier" /\ IsSome(getReferencedExportContainer(file, left)) ->
                createExportExpression(st, left, flagged)
          [] /\ left.kind \in {"ObjectLiteralExpression", "ArrayLiteralExpression"}
             /\ hasExportedReferenceInDestructuringPattern(file, left) ->
                substituteDestructuring(flagged)
          [] OTHER -> flagged

substituteBinaryExpression(st, file, node) ==
    IF isAssignmentOperator(node.text) THEN substituteAssignmentExpression(st, file, node)
    ELSE node

createSubtract(l, r) == Bin("-", l, r)
createAdd(l, r) == Bin("+", l, r)

\* substitutePostfixUnaryExpression that exports the prefix form and corrects nothing
substitutePostfixUnaryExpressionUncorrected(st, file, node) ==
    LET operand == node.kids[1]
    IN  IF operand.kind = "Identifier" /\ IsSome(getReferencedExportContainer(file, operand))
        THEN createExportExpression(st, operand, Prefix(node.text, operand))
        ELSE node

substitutePostfixUnaryExpression(st, file, node) ==
    LET operand == node.kids[1]
    IN  IF operand.kind = "Identifier" /\ IsSome(getReferencedExportContainer(file, operand))
        THEN LET exportCall == createExportExpression(st, operand, Prefix(node.text, operand))
             IN  IF node.text = "++"
                 THEN createSubtract(exportCall, Num(1))
                 ELSE createAdd(exportCall, Num(1))
        ELSE node

substituteExpression(options, st, file, node) ==
    CASE node.kind = "Identifier" -> substituteExpressionIdentifier(options, file, node)
      [] node.kind = "BinaryExpression" -> substituteBinaryExpression(st, file, node)
      [] node.kind = "PostfixUnaryExpression" -> substitutePostfixUnaryExpression(st, file, node)
      [] OTHER -> node

-----------------------------------------------------------------------------
(* The emitter's part in substitution: every node of an enabled kind that does   *)
(* not carry NoSubstitution is handed to the hook, and what the hook returns is  *)
(* emitted without being handed to it again.  The emitted tree is the printed    *)
(* program: it carries no emit flags.                                            *)

\* the kids of a node that are names, not nodes to emit
NamePositions(node) ==
    CASE node.kind = "PropertyAccessExpression" -> {2}
      [] node.kind \in {"PropertyAssignment", "VariableDeclaration"} -> {1}
      [] node.kind \in {"FunctionExpression", "FunctionDeclaration"} -> {1}
      [] node.kind = "ForInStatement" -> {1}
      [] OTHER -> {}

SubstitutionLimit == Node("SubstitutionLimit", "", "", 0, {}, <<>>)

\* what the emitter goes on with at a node: the node itself, or what the hook
\* returned for it, marked as not to be handed to the hook again
Substituted(options, st, file, node, fuel) ==
    IF node.kind \in EnabledSubstitutionKinds /\ ~HasModifier(node, "NoSubstitution")
    THEN LET substitute == substituteExpression(options, st, file, node)
         IN  IF substitute \in {node, setNodeEmitFlags(node, "NoSubstitution")}
             THEN substitute
             ELSE IF fuel = 0 THEN SubstitutionLimit
             ELSE setNodeEmitFlags(substitute, "NoSubstitution")
    ELSE node

\* the substitutions that may still follow below a node once the hook has
\* returned `substituted` for it
FuelLeft(node, substituted, fuel) ==
    IF substituted \in {node, setNodeEmitFlags(node, "NoSubstitution")} THEN fuel
    ELSE fuel - 1

RECURSIVE EmitKids(_, _, _, _, _)
\* the printed form of a node the hook has dealt with: each kid that is not a
\* name goes through the hook and is printed in turn (fuel is never negative)
EmitKids(options, st, file, node, fuel) ==
    [node EXCEPT !.mods = @ \ {"NoSubstitution"},
                 !.kids = [i \in 1..Len(node.kids) |->
                              IF i \in NamePositions(node) \/ fuel < 0 THEN node.kids[i]
                              ELSE EmitKids(options, st, file,
                                       Substituted(options, st, file, node.kids[i], fuel),
                                       FuelLeft(node.kids[i],
                                                Substituted(options, st, file, node.kids[i], fuel),
                                                fuel))]]
Emit(options, st, file, node, fuel) ==
    EmitKids(options, st, file, Substituted(options, st, file, node, fuel),
             FuelLeft(node, Substituted(options, st, file, node, fuel), fuel))

EmitStatements(options, st, file, statements) ==
    [i \in 1..Len(statements) |-> Emit(options, st, file, statements[i], MaxSubstitutions)]

-----------------------------------------------------------------------------
(* Export-Star Aggregator and Output Assembler. *)

createLogicalAnd(l, r) == Bin("&&", l, r)
createLogicalNot(e) == Prefix("!", e)
createStrictInequality(l, r) == Bin("!==", l, r)
createHasOwnProperty(target, name) ==
    Call(PropertyAccess(target, SynthId("hasOwnProperty")), <<name>>)
createVariableStatement(name, init) ==
    VariableStatement({}, <<VariableDeclaration(name, <<init>>)>>)

\* addExportStarFunction: [statements, exportStarFunction]; localNames is the
\* exported-names map's identifier, or None
addExportStarFunction(st, localNames) ==
    LET exportStarFunction == createUniqueName("exportStar")
        m == SynthId("m")
        n == SynthId("n")
        exports == SynthId("exports")
        notDefault == createStrictInequality(n, Str("default"))
        condition == IF IsSome(localNames)
                     THEN createLogicalAnd(notDefault,
                              createLogicalNot(createHasOwnProperty(Get(localNames), n)))
                     ELSE notDefault
    IN  [statements |->
            <<FunctionDeclaration({}, exportStarFunction.text, <<Parameter(m)>>,
                Block(<<createVariableStatement(exports, ObjectLit(<<>>)),
                        ForIn(VariableDeclarationList(<<VariableDeclaration(n, <<>>)>>), m,
                              Block(<<If(condition,
                                         Statement(createAssignment(ElementAccess(exports, n),
                                                                    ElementAccess(m, n))))>>)),
                        Statement(Call(ExporterOf(st), <<exports>>))>>))>>,
         exportStarFunction |-> exportStarFunction]

IsExportWithClause(node) == node.kind = "ExportDeclaration" /\ HasExportClause(node)

\* addExportStarIfNeeded that leaves the keys of named re-exports out of the map
addExportStarIfNeededLocalNamesOnly(st) ==
    LET imports == OrEmpty(st.externalImports)
        hasExportDeclarationWithExportClause ==
            \E i \in 1..Len(imports) : IsExportWithClause(imports[i])
    IN  IF /\ ~IsSome(st.exportedLocalNames)
           /\ OrEmpty(st.exportSpecifiers) = <<>>
           /\ ~hasExportDeclarationWithExportClause
        THEN addExportStarFunction(st, None)
        ELSE LET locals == OrEmpty(st.exportedLocalNames)
                 exportedNames ==
                     [i \in 1..Len(locals) |-> PropertyAssignment(Str(locals[i].text), True)]
                 exportedNamesStorageRef == createUniqueName("exportedNames")
                 star == addExportStarFunction(st, Some(exportedNamesStorageRef))
             IN  [statements |->
                     <<createVariableStatement(exportedNamesStorageRef, ObjectLit(exportedNames))>>
                     \o star.statements,
                  exportStarFunction |-> star.exportStarFunction]

\* addExportStarIfNeeded: [statements, exportStarFunction]
addExportStarIfNeeded(st) ==
    LET imports == OrEmpty(st.externalImports)
        hasExportDeclarationWithExportClause ==
            \E i \in 1..Len(imports) : IsExportWithClause(imports[i])
    IN  IF /\ ~IsSome(st.exportedLocalNames)
           /\ OrEmpty(st.exportSpecifiers) = <<>>
           /\ ~hasExportDeclarationWithExportClause
        THEN addExportStarFunction(st, None)
        ELSE LET locals == OrEmpty(st.exportedLocalNames)
                 clauses == SelectSeq(imports, IsExportWithClause)
                 elements == Flatten([i \in 1..Len(clauses) |-> clauses[i].kids])
                 exportedNames ==
                     [i \in 1..Len(locals) |-> PropertyAssignment(Str(locals[i].text), True)]
                     \o [i \in 1..Len(elements) |-> PropertyAssignment(Str(elements[i].text), True)]
                 exportedNamesStorageRef == createUniqueName("exportedNames")
                 star == addExportStarFunction(st, Some(exportedNamesStorageRef))
             IN  [statements |->
                     <<createVariableStatement(exportedNamesStorageRef, ObjectLit(exportedNames))>>
                     \o star.statements,
                  exportStarFunction |-> star.exportStarFunction]

\* SetterStatements that reads a re-exported member under its exported name
SetterStatementsReadingExportedName(st, exportStarFunction, parameterName, entry) ==
    LET importVariableName == getLocalNameForExternalImport(entry)
    IN  CASE entry.kind = "ImportDeclaration" /\ entry.kids = <<>> -> <<>>
          [] entry.kind \in {"ImportDeclaration", "ImportEqualsDeclaration"} ->
                <<Statement(createAssignment(Get(importVariableName), parameterName))>>
          [] entry.kind = "ExportDeclaration" /\ HasExportClause(entry) ->
                <<Statement(Call(ExporterOf(st),
                    <<ObjectLit([i \in 1..Len(entry.kids) |->
                        PropertyAssignment(Str(entry.kids[i].text),
                            ElementAccess(parameterName, Str(entry.kids[i].text)))])>>))>>
          [] entry.kind = "ExportDeclaration" ->
                <<Statement(Call(exportStarFunction, <<parameterName>>))>>
          [] OTHER -> <<>>

\* the statement one entry of a group contributes to the group's setter
SetterStatements(st, exportStarFunction, parameterName, entry) ==
    LET importVariableName == getLocalNameForExternalImport(entry)
    IN  CASE entry.kind = "ImportDeclaration" /\ entry.kids = <<>> -> <<>>
          [] entry.kind \in {"ImportDeclaration", "ImportEqualsDeclaration"} ->
                <<Statement(createAssignment(Get(importVariableName), parameterName))>>
          [] entry.kind = "ExportDeclaration" /\ HasExportClause(entry) ->
                <<Statement(Call(ExporterOf(st),
                    <<ObjectLit([i \in 1..Len(entry.kids) |->
                        PropertyAssignment(Str(entry.kids[i].text),
                            ElementAccess(parameterName,
                                Str(IF entry.kids[i].prop # "" THEN entry.kids[i].prop
                                    ELSE entry.kids[i].text)))])>>))>>
          [] entry.kind = "ExportDeclaration" ->
                <<Statement(Call(exportStarFunction, <<parameterName>>))>>
          [] OTHER -> <<>>

\* the setter generateSetters makes for one group
SetterOfGroup(st, exportStarFunction, group) ==
    LET names == SelectSeq([i \in 1..Len(group.externalImports) |->
                               getLocalNameTextForExternalImport(group.externalImports[i])],
                           IsSome)
        parameterName == createUniqueName(IF names = <<>> THEN "" ELSE Get(names[1]))
    IN  FunctionExpression({}, <<Parameter(parameterName)>>,
            Block(Flatten([i \in 1..Len(group.externalImports) |->
                SetterStatements(st, exportStarFunction, parameterName, group.externalImports[i])])))

\* generateSetters that makes no setter for a group without statements
generateSettersSkippingEmpty(st, exportStarFunction, dependencyGroups) ==
    ArrayLit(SelectSeq([i \in 1..Len(dependencyGroups) |->
                           SetterOfGroup(st, exportStarFunction, dependencyGroups[i])],
                       LAMBDA f : f.kids[2].kids # <<>>))

generateSetters(st, exportStarFunction, dependencyGroups) ==
    ArrayLit([i \in 1..Len(dependencyGroups) |->
                 SetterOfGroup(st, exportStarFunction, dependencyGroups[i])])

IsPrologueDirective(stmt) ==
    stmt.kind = "ExpressionStatement" /\ stmt.kids[1].kind = "StringLiteral"

RECURSIVE PrologueLength(_)
PrologueLength(statements) ==
    IF statements # <<>> /\ IsPrologueDirective(Head(statements))
    THEN 1 + PrologueLength(Tail(statements))
    ELSE 0

\* the rest of addSystemModuleBody once the statements are visited and the star
\* helper is made
ModuleBody(st1, executeStatements, star, dependencyGroups) ==
    [st |-> st1,
     statements |->
        endLexicalEnvironment(st1)
        \o OrEmpty(st1.exportedFunctionDeclarations)
        \o star.statements
        \o <<Return(ObjectLit(<<
                PropertyAssignment(SynthId("setters"),
                    generateSetters(st1, star.exportStarFunction, dependencyGroups)),
                PropertyAssignment(SynthId("execute"),
                    FunctionExpression({"asteriskToken"}, <<>>, Block(executeStatements)))>>))>>]

VisitedBody(visited, dependencyGroups) ==
    ModuleBody(visited.st, visited.out, addExportStarIfNeeded(visited.st), dependencyGroups)

\* addSystemModuleBody: [st, statements], the statements it adds to the factory body
addSystemModuleBody(st, node, dependencyGroups, statementOffset) ==
    VisitedBody(visitNodes([st EXCEPT !.hoistedVariables = <<>>, !.hoistedFunctions = <<>>],
                           node.statements, statementOffset + 1, <<>>),
                dependencyGroups)

\* the registration call transformSystemModuleWorker builds around the body
RegisterCallOf(st1, node, dependencyGroups, statementOffset, body) ==
    LET contextObject == Get(st1.contextObjectForFile)
        statements ==
            SubSeq(node.statements, 1, statementOffset)
            \o <<createVariableStatement(SynthId("__moduleName"),
                    createLogicalAnd(contextObject,
                        PropertyAccess(contextObject, SynthId("id"))))>>
            \o body.statements
        register ==
            Statement(Call(PropertyAccess(SynthId("System"), SynthId("register")),
                <<IF IsSome(node.moduleName) THEN Str(Get(node.moduleName)) ELSE Undefined,
                  ArrayLit([i \in 1..Len(dependencyGroups) |->
                               getNameOfDependencyGroup(dependencyGroups[i])]),
                  FunctionExpression({"EmitEmitHelpers"},
                      <<Parameter(Get(st1.exportFunctionForFile)),
                        Parameter(contextObject)>>,
                      Block(statements))>>))
    IN  [st |-> body.st, fault |-> "",
         updated |-> Some([node EXCEPT !.statements = <<register>>])]

\* transformSystemModuleWorker once the dependency groups are collected
GroupedWorker(st1, node, grouped, statementOffset) ==
    IF grouped.fault # "" THEN [st |-> st1, fault |-> grouped.fault, updated |-> None]
    ELSE RegisterCallOf(st1, node, grouped.dependencyGroups, statementOffset,
            addSystemModuleBody(st1, node, grouped.dependencyGroups, statementOffset))

\* transformSystemModuleWorker once the module info is collected
CollectedWorker(st1, node, info) ==
    GroupedWorker(st1, node, collectDependencyGroups(st1, info.externalImports),
                  PrologueLength(node.statements))

WithModuleInfo(st, info) ==
    [st EXCEPT !.externalImports = Some(info.externalImports),
               !.exportSpecifiers = Some(info.exportSpecifiers),
               !.exportEquals = info.exportEquals,
               !.hasExportStars = Some(info.hasExportStars),
               !.exportFunctionForFile = Some(createUniqueName("exports")),
               !.contextObjectForFile = Some(createUniqueName("context"))]

\* transformSystemModuleWorker: [st, fault, updated]
transformSystemModuleWorker(st, node) ==
    IF IsSome(st.exportFunctionForFile)
    THEN [st |-> st, fault |-> "Debug.assert(!exportFunctionForFile)", updated |-> None]
    ELSE CollectedWorker(WithModuleInfo(st, collectExternalModuleInfo(node)), node,
                         collectExternalModuleInfo(node))

\* a reset that leaves the exported local names and the queued function exports
ResetStateKeepingNames(st) ==
    [st EXCEPT !.currentSourceFile = None, !.externalImports = None,
               !.exportSpecifiers = None, !.exportEquals = None,
               !.hasExportStars = Some(FALSE), !.exportFunctionForFile = None,
               !.contextObjectForFile = None]

\* the per-file fields as transformSourceFile leaves them
ResetState(st) ==
    [st EXCEPT !.currentSourceFile = None, !.externalImports = None,
               !.exportSpecifiers = None, !.exportEquals = None,
               !.hasExportStars = Some(FALSE), !.exportFunctionForFile = None,
               !.contextObjectForFile = None, !.exportedLocalNames = None,
               !.exportedFunctionDeclarations = None]

\* transformSourceFile with the reset done after a fault as well
WorkerResultResettingAfterFault(options, node, r) ==
    IF r.fault # ""
    THEN [st |-> ResetState(r.st), result |-> "fault", fault |-> r.fault,
          updated |-> None, emitted |-> None]
    ELSE [st |-> ResetState(r.st), result |-> "updated", fault |-> "",
          updated |-> r.updated,
          emitted |-> Some(EmitStatements(options, r.st, node, Get(r.updated).statements))]

\* what transformSourceFile does with the worker's result r: the expressions of
\* the updated file go through the substitution hook while the file's state is live
WorkerResult(options, node, r) ==
    IF r.fault # ""
    THEN [st |-> r.st, result |-> "fault", fault |-> r.fault,
          updated |-> None, emitted |-> None]
    ELSE [st |-> ResetState(r.st), result |-> "updated", fault |-> "",
          updated |-> r.updated,
          emitted |-> Some(EmitStatements(options, r.st, node, Get(r.updated).statements))]

\* transformSourceFile: [st, result, fault, updated, emitted]
transformSourceFile(options, st, node) ==
    IF isExternalModule(node) \/ options.isolatedModules
    THEN WorkerResult(options, node,
            transformSystemModuleWorker([st EXCEPT !.currentSourceFile = Some(node)], node))
    ELSE [st |-> st, result |-> "unchanged", fault |-> "", updated |-> Some(node),
          emitted |-> Some(EmitStatements(options, st, node, node.statements))]

-----------------------------------------------------------------------------
(* The emitted module at run time: values, memory, and the evaluation of the     *)
(* statements and expressions the transformer emits.                             *)

Value(t, n, str, o) == [t |-> t, n |-> n, s |-> str, o |-> o]
VUndefined == Value("undefined", 0, "", <<>>)
VNaN == Value("NaN", 0, "", <<>>)
VNum(n) == Value("number", n, "", <<>>)
VStr(str) == Value("string", 0, str, <<>>)
VBool(b) == Value("boolean", IF b THEN 1 ELSE 0, "", <<>>)
VFunction(name) == Value("function", 0, name, <<>>)
VClass(name) == Value("class", 0, name, <<>>)
VObject(props) == Value("object", 0, "", props)
\* the exporter callback the loader hands to the factory
VExporter == Value("exporter", 0, "", <<>>)

Binding(k, v) == [k |-> k, v |-> v]
Has(bs, k) == \E i \in 1..Len(bs) : bs[i].k = k
Lookup(bs, k) == IF Has(bs, k) THEN bs[CHOOSE i \in 1..Len(bs) : bs[i].k = k].v ELSE VUndefined
Set(bs, k, v) ==
    IF Has(bs, k) THEN [bs EXCEPT ![CHOOSE i \in 1..Len(bs) : bs[i].k = k].v = v]
    ELSE Append(bs, Binding(k, v))

\* memory: the variables, the loader's export table, the calls the exporter saw
Memory(env, exports, calls, fault) ==
    [env |-> env, exports |-> exports, calls |-> calls, fault |-> fault]
Faulted(m, what) == [m EXCEPT !.fault = IF @ = "" THEN what ELSE @]
Result(v, m) == [v |-> v, m |-> m]

Truthy(v) == ~(v.t \in {"undefined", "NaN"} \/ (v.t \in {"number", "boolean"} /\ v.n = 0)
               \/ (v.t = "string" /\ v.s = ""))
KeyOf(v) == IF v.t = "number" THEN ToString(v.n) ELSE v.s
Arith(op, l, r) ==
    IF l.t = "number" /\ r.t = "number"
    THEN VNum(IF op = "+" THEN l.n + r.n ELSE l.n - r.n)
    ELSE VNaN

RECURSIVE ExportAll(_, _)
\* the exporter called with an object: every property is published
ExportAll(m, props) ==
    IF props = <<>> THEN m
    ELSE LET m1 == [m EXCEPT !.exports = Set(@, Head(props).k, Head(props).v),
                             !.calls = Append(@, Head(props))]
         IN  IF m1 = m1 THEN ExportAll(m1, Tail(props)) ELSE m

FunctionNamed(prog, name) ==
    LET hits == SelectSeq(prog, LAMBDA s : s.kind = "FunctionDeclaration" /\ s.text = name)
    IN  IF hits = <<>> THEN None ELSE Some(hits[1])

RECURSIVE Eval(_, _, _)
RECURSIVE EvalList(_, _, _, _)
RECURSIVE Exec(_, _, _)
RECURSIVE ExecAll(_, _, _)
RECURSIVE ExecForIn(_, _, _, _, _)
RECURSIVE AssignTo(_, _, _, _)

\* store a value in an assignment target
AssignTo(prog, target, v, m) ==
    CASE target.kind = "Identifier" -> [m EXCEPT !.env = Set(@, target.text, v)]
      [] target.kind = "ElementAccessExpression" /\ target.kids[1].kind = "Identifier" ->
            LET key == Eval(prog, target.kids[2], m)
                object == Lookup(key.m.env, target.kids[1].text)
            IN  IF object.t # "object" THEN Faulted(key.m, "TypeError")
                ELSE [key.m EXCEPT !.env = Set(@, target.kids[1].text,
                                               VObject(Set(object.o, KeyOf(key.v), v)))]
      [] target.kind = "ArrayLiteralExpression" ->
            LET F[i \in 0..Len(target.kids)] ==
                    IF i = 0 THEN m
                    ELSE AssignTo(prog, target.kids[i], Lookup(v.o, ToString(i - 1)), F[i - 1])
            IN  F[Len(target.kids)]
      [] OTHER -> Faulted(m, "SyntaxError")

EvalList(prog, nodes, m, vs) ==
    IF nodes = <<>> THEN [vs |-> vs, m |-> m]
    ELSE LET r == Eval(prog, Head(nodes), m)
         IN  IF r = r THEN EvalList(prog, Tail(nodes), r.m, Append(vs, r.v))
             ELSE [vs |-> vs, m |-> m]

Eval(prog, node, m) ==
    CASE node.kind = "Identifier" -> Result(Lookup(m.env, node.text), m)
      [] node.kind = "NumericLiteral" -> Result(VNum(node.num), m)
      [] node.kind = "StringLiteral" -> Result(VStr(node.text), m)
      [] node.kind = "TrueKeyword" -> Result(VBool(TRUE), m)
      [] node.kind = "ClassExpression" -> Result(VClass(node.text), m)
      [] node.kind = "FunctionExpression" -> Result(VFunction(""), m)
      [] node.kind = "ArrayLiteralExpression" ->
            LET r == EvalList(prog, node.kids, m, <<>>)
            IN  Result(VObject([i \in 1..Len(r.vs) |-> Binding(ToString(i - 1), r.vs[i])]), r.m)
      [] node.kind = "ObjectLiteralExpression" ->
            LET r == EvalList(prog, [i \in 1..Len(node.kids) |-> node.kids[i].kids[2]], m, <<>>)
            IN  Result(VObject([i \in 1..Len(r.vs) |->
                                   Binding(node.kids[i].kids[1].text, r.vs[i])]), r.m)
      [] node.kind = "PropertyAccessExpression" ->
            LET r == Eval(prog, node.kids[1], m)
            IN  IF r.v.t # "object" THEN Result(VUndefined, Faulted(r.m, "TypeError"))
                ELSE Result(Lookup(r.v.o, node.kids[2].text), r.m)
      [] node.kind = "ElementAccessExpression" ->
            LET r == Eval(prog, node.kids[1], m)
                k == Eval(prog, node.kids[2], r.m)
            IN  IF r.v.t # "object" THEN Result(VUndefined, Faulted(k.m, "TypeError"))
                ELSE Result(Lookup(r.v.o, KeyOf(k.v)), k.m)
      [] node.kind = "PrefixUnaryExpression" /\ node.text = "!" ->
            LET r == Eval(prog, node.kids[1], m) IN Result(VBool(~Truthy(r.v)), r.m)
      [] node.kind = "PrefixUnaryExpression" ->
            LET r == Eval(prog, node.kids[1], m)
                v == Arith(IF node.text = "++" THEN "+" ELSE "-", r.v, VNum(1))
            IN  Result(v, AssignTo(prog, node.kids[1], v, r.m))
      [] node.kind = "PostfixUnaryExpression" ->
            LET r == Eval(prog, node.kids[1], m)
                v == Arith(IF node.text = "++" THEN "+" ELSE "-", r.v, VNum(1))
            IN  Result(IF r.v.t = "number" THEN r.v ELSE VNaN, AssignTo(prog, node.kids[1], v, r.m))
      [] node.kind = "BinaryExpression" /\ node.text = "=" ->
            LET r == Eval(prog, node.kids[2], m)
            IN  Result(r.v, AssignTo(prog, node.kids[1], r.v, r.m))
      [] node.kind = "BinaryExpression" /\ node.text \in {"+=", "-="} ->
            LET l == Eval(prog, node.kids[1], m)
                r == Eval(prog, node.kids[2], l.m)
                v == Arith(IF node.text = "+=" THEN "+" ELSE "-", l.v, r.v)
            IN  Result(v, AssignTo(prog, node.kids[1], v, r.m))
      [] node.kind = "BinaryExpression" /\ node.text = "&&" ->
            LET l == Eval(prog, node.kids[1], m)
            IN  IF Truthy(l.v) THEN Eval(prog, node.kids[2], l.m) ELSE l
      [] node.kind = "BinaryExpression" ->
            LET l == Eval(prog, node.kids[1], m)
                r == Eval(prog, node.kids[2], l.m)
            IN  CASE node.text = "," -> r
                  [] node.text = "!==" -> Result(VBool(l.v # r.v), r.m)
                  [] node.text \in {"+", "-"} -> Result(Arith(node.text, l.v, r.v), r.m)
                  [] OTHER -> Result(VUndefined, Faulted(r.m, "SyntaxError"))
      [] node.kind = "CallExpression" /\ node.kids[1].kind = "PropertyAccessExpression"
            /\ node.kids[1].kids[2].text = "hasOwnProperty" ->
            LET object == Eval(prog, node.kids[1].kids[1], m)
                args == EvalList(prog, Tail(node.kids), object.m, <<>>)
            IN  Result(VBool(Has(object.v.o, KeyOf(args.vs[1]))), args.m)
      [] node.kind = "CallExpression" ->
            LET callee == Eval(prog, node.kids[1], m)
                args == EvalList(prog, Tail(node.kids), callee.m, <<>>)
                declared == FunctionNamed(prog, callee.v.s)
            IN  CASE callee.v.t = "exporter" /\ Len(args.vs) = 2 ->
                        Result(args.vs[2],
                               [args.m EXCEPT !.exports = Set(@, KeyOf(args.vs[1]), args.vs[2]),
                                              !.calls = Append(@, Binding(KeyOf(args.vs[1]), args.vs[2]))])
                  [] callee.v.t = "exporter" /\ Len(args.vs) = 1 ->
                        Result(VUndefined, ExportAll(args.m, args.vs[1].o))
                  [] callee.v.t = "function" /\ IsSome(declared) ->
                        LET f == Get(declared)
                            params == f.kids[1].kids
                            bound == [args.m EXCEPT !.env =
                                         LET F[i \in 0..Len(params)] ==
                                                 IF i = 0 THEN args.m.env
                                                 ELSE Set(F[i - 1], params[i].kids[1].text,
                                                          IF i <= Len(args.vs) THEN args.vs[i]
                                                          ELSE VUndefined)
                                         IN  F[Len(params)]]
                        IN  Result(VUndefined, ExecAll(prog, f.kids[2].kids, bound))
                  [] OTHER -> Result(VUndefined, Faulted(args.m, "TypeError"))
      [] OTHER -> Result(VUndefined, Faulted(m, "TypeError"))

ExecForIn(prog, name, keys, body, m) ==
    IF keys = <<>> THEN m
    ELSE LET m1 == Exec(prog, body, [m EXCEPT !.env = Set(@, name, VStr(Head(keys)))])
         IN  IF m1 = m1 THEN ExecForIn(prog, name, Tail(keys), body, m1) ELSE m

Exec(prog, stmt, m) ==
    CASE stmt.kind \in {"ExpressionStatement", "ReturnStatement"} -> Eval(prog, stmt.kids[1], m).m
      [] stmt.kind = "VariableStatement" ->
            LET F[i \in 0..Len(stmt.kids)] ==
                    IF i = 0 THEN m
                    ELSE LET d == stmt.kids[i]
                         IN  IF Len(d.kids) < 2
                             THEN [F[i - 1] EXCEPT !.env =
                                      IF Has(@, d.kids[1].text) THEN @
                                      ELSE Set(@, d.kids[1].text, VUndefined)]
                             ELSE LET r == Eval(prog, d.kids[2], F[i - 1])
                                  IN  [r.m EXCEPT !.env = Set(@, d.kids[1].text, r.v)]
            IN  F[Len(stmt.kids)]
      [] stmt.kind = "FunctionDeclaration" -> [m EXCEPT !.env = Set(@, stmt.text, VFunction(stmt.text))]
      [] stmt.kind = "Block" -> ExecAll(prog, stmt.kids, m)
      [] stmt.kind = "IfStatement" ->
            LET c == Eval(prog, stmt.kids[1], m)
            IN  IF Truthy(c.v) THEN Exec(prog, stmt.kids[2], c.m) ELSE c.m
      [] stmt.kind = "ForInStatement" ->
            LET object == Eval(prog, stmt.kids[2], m)
            IN  ExecForIn(prog, stmt.kids[1].kids[1].kids[1].text,
                          [i \in 1..Len(object.v.o) |-> object.v.o[i].k], stmt.kids[3], object.m)
      [] OTHER -> Faulted(m, "SyntaxError")

ExecAll(prog, stmts, m) ==
    IF stmts = <<>> THEN m
    ELSE LET m1 == Exec(prog, Head(stmts), m)
         IN  IF m1 = m1 THEN ExecAll(prog, Tail(stmts), m1) ELSE m

-----------------------------------------------------------------------------
(* The state machine: one transformer instance that is handed source files one   *)
(* after another, and a loader that runs the module emitted last.                *)

DefaultOptions == [target |-> "ES5", isolatedModules |-> FALSE]
OptionSets == [target : {"ES3", "ES5"}, isolatedModules : BOOLEAN]

CurrentState ==
    StateOf(currentSourceFile, externalImports, exportSpecifiers, exportEquals,
            hasExportStars, exportFunctionForFile, contextObjectForFile,
            exportedLocalNames, exportedFunctionDeclarations)

NoOutput == [result |-> "none", fault |-> "", updated |-> None, emitted |-> None]
EmptyMemory == Memory(<<>>, <<>>, <<>>, "")
IdleRuntime ==
    [phase |-> "idle", pc |-> 0, setter |-> 0, mem |-> EmptyMemory,
     stmt |-> Undefined, before |-> EmptyMemory, arg |-> VUndefined]

\* the namespace objects a dependency may hand to a setter
Namespaces ==
    { VObject(<<Binding("a", VNum(1)), Binding("default", VNum(2)), Binding("x", VNum(3))>>),
      VObject(<<Binding("g", VNum(4)), Binding("k", VNum(6))>>) }

\* the state after transformSystemModule(context) has run: nothing is assigned yet
InitWith(options) ==
    /\ compilerOptions \in options
    /\ currentSourceFile = None
    /\ externalImports = None
    /\ exportSpecifiers = None
    /\ exportEquals = None
    /\ hasExportStars = None
    /\ exportFunctionForFile = None
    /\ contextObjectForFile = None
    /\ exportedLocalNames = None
    /\ exportedFunctionDeclarations = None
    /\ input = None
    /\ output = NoOutput
    /\ filesTransformed = 0
    /\ rt = IdleRuntime

Init == InitWith({DefaultOptions})

\* one call of transformSourceFile on the transformer instance; the emitted module
\* is handed to the loader once the compiler is done with it
TransformSourceFile(node) ==
    /\ filesTransformed < MaxFiles
    /\ rt.phase = "idle"
    /\ \E r \in {transformSourceFile(compilerOptions, CurrentState, node)} :
        /\ currentSourceFile' = r.st.currentSourceFile
        /\ externalImports' = r.st.externalImports
        /\ exportSpecifiers' = r.st.exportSpecifiers
        /\ exportEquals' = r.st.exportEquals
        /\ hasExportStars' = r.st.hasExportStars
        /\ exportFunctionForFile' = r.st.exportFunctionForFile
        /\ contextObjectForFile' = r.st.contextObjectForFile
        /\ exportedLocalNames' = r.st.exportedLocalNames
        /\ exportedFunctionDeclarations' = r.st.exportedFunctionDeclarations
        /\ input' = Some(node)
        /\ output' = [result |-> r.result, fault |-> r.fault,
                      updated |-> r.updated, emitted |-> r.emitted]
        /\ filesTransformed' = filesTransformed + 1
        /\ rt' = IdleRuntime
        /\ UNCHANGED compilerOptions

\* the parts of the emitted System.register call
RegisterCall(out) == Get(out.emitted)[1].kids[1]
DependencyNames(out) == RegisterCall(out).kids[3].kids
Factory(out) == RegisterCall(out).kids[4]
FactoryBody(out) == Factory(out).kids[2].kids
ReturnedObject(out) == FactoryBody(out)[Len(FactoryBody(out))].kids[1]
Setters(out) == ReturnedObject(out).kids[1].kids[2].kids
Execute(out) == ReturnedObject(out).kids[2].kids[2]
ExecuteBody(out) == Execute(out).kids[2].kids

\* the loader calls the factory: its parameters are bound and, as in any function
\* body, the function declarations of the body are bound on entry
Register ==
    /\ output.result = "updated"
    /\ rt.phase = "idle"
    /\ LET params == Factory(output).kids[1].kids
           declared == SelectSeq(FactoryBody(output), LAMBDA s : s.kind = "FunctionDeclaration")
           env0 == <<Binding(params[1].kids[1].text, VExporter),
                     Binding(params[2].kids[1].text, VObject(<<Binding("id", VStr("a"))>>))>>
           env1 == env0 \o [i \in 1..Len(declared) |->
                               Binding(declared[i].text, VFunction(declared[i].text))]
       IN  rt' = [IdleRuntime EXCEPT !.phase = "factory", !.pc = 1,
                                     !.mem = Memory(env1, <<>>, <<>>, "")]
    /\ UNCHANGED <<compilerOptions, fileVars, input, output, filesTransformed>>

Ran(stmt, mem, phase, pc) ==
    [rt EXCEPT !.phase = IF mem.fault # "" THEN "failed" ELSE phase,
               !.pc = pc, !.stmt = stmt, !.before = rt.mem, !.mem = mem]

\* the factory body runs, one statement at a time, up to its return
RunFactoryStatement ==
    /\ rt.phase = "factory"
    /\ LET stmt == FactoryBody(output)[rt.pc]
       IN  rt' = IF stmt.kind = "ReturnStatement"
                 THEN [Ran(stmt, rt.mem, "linked", 0) EXCEPT !.setter = 1]
                 ELSE Ran(stmt, Exec(FactoryBody(output), stmt, rt.mem), "factory", rt.pc + 1)
    /\ UNCHANGED <<compilerOptions, fileVars, input, output, filesTransformed>>

\* the loader hands the namespace of the next dependency to its setter
CallSetter(m) ==
    /\ rt.phase = "linked"
    /\ rt.setter <= Len(Setters(output))
    /\ LET f == Setters(output)[rt.setter]
           bound == [rt.mem EXCEPT !.env = Set(@, f.kids[1].kids[1].kids[1].text, m)]
       IN  rt' = [Ran(f, ExecAll(FactoryBody(output), f.kids[2].kids, bound), "linked", 0)
                     EXCEPT !.setter = rt.setter + 1, !.arg = m]
    /\ UNCHANGED <<compilerOptions, fileVars, input, output, filesTransformed>>

\* once every setter has run the loader calls execute: one statement at a time
RunExecuteStatement ==
    /\ \/ rt.phase = "linked" /\ rt.setter > Len(Setters(output))
       \/ rt.phase = "executing"
    /\ LET body == ExecuteBody(output)
           pc == IF rt.phase = "linked" THEN 1 ELSE rt.pc
       IN  rt' = IF pc > Len(body) THEN [rt EXCEPT !.phase = "done"]
                 ELSE Ran(body[pc], Exec(FactoryBody(output), body[pc], rt.mem),
                          IF pc = Len(body) THEN "done" ELSE "executing", pc + 1)
    /\ UNCHANGED <<compilerOptions, fileVars, input, output, filesTransformed>>

Next ==
    \/ \E node \in Files : TransformSourceFile(node)
    \/ Register
    \/ RunFactoryStatement
    \/ \E m \in Namespaces : CallSetter(m)
    \/ RunExecuteStatement

Spec == Init /\ [][Next]_vars

\* the transformer alone, on files of import and re-export declarations
InitImports == InitWith({DefaultOptions})
NextImports == \E node \in ImportFiles : TransformSourceFile(node)
SpecImports == InitImports /\ [][NextImports]_vars

\* the transformer alone, under every target, on files that read an imported name
InitReads == InitWith(OptionSets)
NextReads == \E node \in ReadFiles : TransformSourceFile(node)
SpecReads == InitReads /\ [][NextReads]_vars

\* the transformer alone, on files of every kind of external entry
InitSetters == InitWith({DefaultOptions})
NextSetters == \E node \in SetterFiles : TransformSourceFile(node)
SpecSetters == InitSetters /\ [][NextSetters]_vars

\* the transformer alone, on files that carry a rename table
InitRenames == InitWith({DefaultOptions})
NextRenames == \E node \in RenamedFiles : TransformSourceFile(node)
SpecRenames == InitRenames /\ [][NextRenames]_vars

\* the transformer alone, on files of every export form
InitExports == InitWith({DefaultOptions})
NextExports == \E node \in ExportFiles : TransformSourceFile(node)
SpecExports == InitExports /\ [][NextExports]_vars

\* the transformer alone, on files with declarations nested in other statements
IsolatedModules == [target |-> "ES5", isolatedModules |-> TRUE]
InitNested == InitWith({IsolatedModules})
NextNested == \E node \in NestedFiles : TransformSourceFile(node)
SpecNested == InitNested /\ [][NextNested]_vars

\* the transformer alone, on files of variable statements
InitVariables == InitWith({IsolatedModules})
NextVariables == \E node \in VariableFiles : TransformSourceFile(node)
SpecVariables == InitVariables /\ [][NextVariables]_vars

\* the transformer alone, on files that assign to a pattern
InitDestructuring == InitWith({DefaultOptions})
NextDestructuring == \E node \in DestructuringFiles : TransformSourceFile(node)
SpecDestructuring == InitDestructuring /\ [][NextDestructuring]_vars

\* the transformer alone, on files that hold namespaces
InitNamespaces == InitWith({DefaultOptions})
NextNamespaces == \E node \in NamespaceFiles : TransformSourceFile(node)
SpecNamespaces == InitNamespaces /\ [][NextNamespaces]_vars

\* the transformer alone, on files that hold local export declarations
InitSpecifiers == InitWith({DefaultOptions})
NextSpecifiers == \E node \in SpecifierFiles : TransformSourceFile(node)
SpecSpecifiers == InitSpecifiers /\ [][NextSpecifiers]_vars

\* transformSourceFile returns the updated file to the compiler, which has not
\* printed it yet
ReturnUpdatedFile(node) ==
    /\ filesTransformed < MaxFiles
    /\ rt.phase = "idle"
    /\ \E r \in {transformSourceFile(compilerOptions, CurrentState, node)} :
        /\ currentSourceFile' = r.st.currentSourceFile
        /\ externalImports' = r.st.externalImports
        /\ exportSpecifiers' = r.st.exportSpecifiers
        /\ exportEquals' = r.st.exportEquals
        /\ hasExportStars' = r.st.hasExportStars
        /\ exportFunctionForFile' = r.st.exportFunctionForFile
        /\ contextObjectForFile' = r.st.contextObjectForFile
        /\ exportedLocalNames' = r.st.exportedLocalNames
        /\ exportedFunctionDeclarations' = r.st.exportedFunctionDeclarations
        /\ input' = Some(node)
        /\ output' = [result |-> r.result, fault |-> r.fault,
                      updated |-> r.updated, emitted |-> None]
        /\ filesTransformed' = filesTransformed + 1
        /\ UNCHANGED <<compilerOptions, rt>>

\* the printer prints the file transformSourceFile returned: every expression of an
\* enabled kind goes through the hook registered at construction, which reads the
\* per-file fields as they are at that moment
PrintReturnedFile ==
    /\ IsSome(input)
    /\ output.result \in {"updated", "unchanged"}
    /\ output.emitted = None
    /\ output' = [output EXCEPT !.emitted =
                      Some(EmitStatements(compilerOptions, CurrentState, Get(input),
                                          Get(output.updated).statements))]
    /\ UNCHANGED <<compilerOptions, fileVars, input, filesTransformed, rt>>

\* the transformer and the printer as two steps, on files that hold namespaces
InitEmission == InitWith({DefaultOptions})
NextEmission ==
    \/ \E node \in NamespaceFiles : ReturnUpdatedFile(node)
    \/ PrintReturnedFile
SpecEmission == InitEmission /\ [][NextEmission]_vars

\* the transformer alone, on files some of which fault and some of which are no modules
InitFaults == InitWith({DefaultOptions})
NextFaults == \E node \in FaultFiles : TransformSourceFile(node)
SpecFaults == InitFaults /\ [][NextFaults]_vars

\* the transformer alone, on files with prologue directives and module names
InitShape == InitWith({DefaultOptions})
NextShape == \E node \in ShapeFiles : TransformSourceFile(node)
SpecShape == InitShape /\ [][NextShape]_vars

-----------------------------------------------------------------------------
(* What the properties below speak of. *)

InputFile == Get(input)
Updated == IsSome(input) /\ output.result = "updated"

\* the per-file state while the file is the current one
LiveState(node) ==
    transformSystemModuleWorker([FreshState EXCEPT !.currentSourceFile = Some(node)], node).st

\* the names the source file exports as variables
ExportedVariables(file) ==
    UNION { DeclaredNames(file.statements[i]) :
                i \in { k \in 1..Len(file.statements) :
                            /\ file.statements[k].kind = "VariableStatement"
                            /\ HasModifier(file.statements[k], "Export") } }

ExportsX(file) == "x" \in ExportedVariables(file)

\* the statements of execute come from the source statement at position i
FromSource(stmt, i) == stmt.num = i
InExecute(stmt) == Updated /\ Contains(ExecuteBody(output), stmt)

\* the loader has run a statement of execute
RanInExecute == rt.phase \in {"executing", "done"} /\ rt.stmt.kind = "ExpressionStatement"

ExporterCall(name, value) == Call(SynthId("exports_1"), <<Str(name), value>>)
LastCall(m) == m.calls[Len(m.calls)]

-----------------------------------------------------------------------------
(* C1: live export.  Whenever a statement of execute has changed the value of a  *)
(* variable the file exports, the loader's export table holds the new value of   *)
(* that variable once the statement is done: a consumer that reads the export    *)
(* after the mutation never sees the value from before it.  This covers simple   *)
(* and compound assignment, destructuring, postfix and prefix ++ and --.         *)
LiveExport ==
    RanInExecute =>
        \A n \in ExportedVariables(InputFile) :
            Lookup(rt.before.env, n) # Lookup(rt.mem.env, n) =>
                /\ Has(rt.mem.exports, n)
                /\ Lookup(rt.mem.exports, n) = Lookup(rt.mem.env, n)

-----------------------------------------------------------------------------
\* what y = x++ and y = x-- are lowered to when x is exported
LoweredPostfix(stmt) ==
    [stmt EXCEPT !.kids =
        <<Bin("=", Id("y"),
              Bin(IF stmt.kids[1].kids[2].text = "++" THEN "-" ELSE "+",
                  ExporterCall("x", Prefix(stmt.kids[1].kids[2].text, Id("x"))),
                  Num(1)))>>]

IsPostfixOfX(stmt) ==
    /\ stmt.kind = "ExpressionStatement"
    /\ stmt.kids[1].kind = "BinaryExpression"
    /\ stmt.kids[1].kids[2].kind = "PostfixUnaryExpression"

\* the step the loader has just taken ran the lowered form of a postfix statement
\* of the source, on an integer x
RanLoweredPostfix(op) ==
    /\ RanInExecute
    /\ \E i \in 1..Len(InputFile.statements) :
          /\ IsPostfixOfX(InputFile.statements[i])
          /\ InputFile.statements[i].kids[1].kids[2].text = op
          /\ rt.stmt = LoweredPostfix(InputFile.statements[i])
    /\ Lookup(rt.before.env, "x").t = "number"

-----------------------------------------------------------------------------
IsAssignmentToX(stmt) ==
    /\ stmt.kind = "ExpressionStatement"
    /\ stmt.kids[1].kind = "BinaryExpression"
    /\ isAssignmentOperator(stmt.kids[1].text)
    /\ stmt.kids[1].kids[1] = Id("x")

RECURSIVE ExporterCalls(_)
\* how many calls of the exporter a tree holds
ExporterCalls(node) ==
    LET F[i \in 0..Len(node.kids)] ==
            IF i = 0 THEN 0 ELSE F[i - 1] + ExporterCalls(node.kids[i])
    IN  F[Len(node.kids)]
        + (IF node.kind = "CallExpression" /\ node.kids[1] = SynthId("exports_1") THEN 1 ELSE 0)

-----------------------------------------------------------------------------
(* C1, the forms the substitution hook is registered for: the live-export        *)
(* property of every file that holds no prefix ++ or --.                         *)
HasPrefixMutation(file) ==
    \E i \in 1..Len(file.statements) :
        /\ file.statements[i].kind = "ExpressionStatement"
        /\ file.statements[i].kids[1].kind = "BinaryExpression"
        /\ file.statements[i].kids[1].kids[2].kind = "PrefixUnaryExpression"

LiveExportOfRewrittenForms ==
    (IsSome(input) /\ ~HasPrefixMutation(InputFile)) => LiveExport

-----------------------------------------------------------------------------
\* the keys the source file exports under a name of its own: exported variables,
\* exported functions and classes that are not the default, the exported names of
\* its export clauses (local or from a module)
LocalExportKeys(file) ==
    ExportedVariables(file)
    \cup { file.statements[i].text :
              i \in { k \in 1..Len(file.statements) :
                          /\ file.statements[k].kind \in {"FunctionDeclaration", "ClassDeclaration"}
                          /\ HasModifier(file.statements[k], "Export")
                          /\ ~HasModifier(file.statements[k], "Default") } }
    \cup UNION { { file.statements[i].kids[j].text : j \in 1..Len(file.statements[i].kids) } :
                    i \in { k \in 1..Len(file.statements) : IsExportWithClause(file.statements[k]) } }

IsStarCall(stmt) ==
    /\ stmt.kind = "ExpressionStatement"
    /\ stmt.kids[1].kind = "CallExpression"
    /\ stmt.kids[1].kids[1] = SynthId("exportStar_1")

\* the loader has just run a setter that only hands its namespace to the star helper
RanStarSetter ==
    /\ rt.phase = "linked"
    /\ rt.stmt.kind = "FunctionExpression"
    /\ rt.stmt.kids[2].kids # <<>>
    /\ \A i \in 1..Len(rt.stmt.kids[2].kids) : IsStarCall(rt.stmt.kids[2].kids[i])

\* what the exporter was handed during the step just taken
Passed == { rt.mem.calls[k] : k \in (Len(rt.before.calls) + 1)..Len(rt.mem.calls) }

(* C6: star precedence.  When the star helper is applied to a namespace m, the   *)
(* object it hands to the exporter holds exactly the keys n of m that are not    *)
(* "default" and not a key the file exports itself (a local export or the        *)
(* exported key of a named re-export), each with the value m[n].                 *)
StarPrecedence ==
    RanStarSetter =>
        Passed = { rt.arg.o[k] :
                     k \in { j \in 1..Len(rt.arg.o) :
                                 rt.arg.o[j].k \notin {"default"} \cup LocalExportKeys(InputFile) } }

(* C6, the half that holds: the helper never hands on "default" or a key the     *)
(* file exports itself, and what it hands on is a key of m with m's value.       *)
StarNeverOverwrites ==
    RanStarSetter =>
        \A c \in Passed :
            /\ c.k \notin {"default"} \cup LocalExportKeys(InputFile)
            /\ \E k \in 1..Len(rt.arg.o) : rt.arg.o[k] = c

-----------------------------------------------------------------------------
IsExportedFunction(stmt) == stmt.kind = "FunctionDeclaration" /\ HasModifier(stmt, "Export")

\* a declaration the lexical environment hoisted into the factory body
IsHoistedDeclaration(stmt) ==
    \/ stmt.kind = "FunctionDeclaration" /\ stmt.num > 0
    \/ stmt.kind = "VariableStatement" /\ \A i \in 1..Len(stmt.kids) : Len(stmt.kids[i].kids) = 1

IsExportOf(stmt, name) ==
    /\ stmt.kind = "ExpressionStatement"
    /\ stmt.kids[1].kind = "CallExpression"
    /\ Len(stmt.kids[1].kids) = 3
    /\ stmt.kids[1].kids[1] = SynthId("exports_1")
    /\ stmt.kids[1].kids[3] = Id(name)

(* C7: hoist before execute.  For every exported function declaration of the     *)
(* file, at any position, the factory body holds the declaration and, after      *)
(* every hoisted declaration and before the final return, an exporter call with  *)
(* the function as value; and once the factory has returned (before any setter   *)
(* and before any statement of execute runs) the exporter has been called with   *)
(* the function.                                                                 *)
HoistBeforeExecute ==
    Updated =>
        \A i \in 1..Len(InputFile.statements) :
            IsExportedFunction(InputFile.statements[i]) =>
                LET name == InputFile.statements[i].text
                    body == FactoryBody(output)
                IN  /\ body[Len(body)].kind = "ReturnStatement"
                    /\ \E j \in 1..(Len(body) - 1) :
                          /\ IsExportOf(body[j], name)
                          /\ \A k \in 1..Len(body) : IsHoistedDeclaration(body[k]) => k < j
                          /\ \E d \in 1..(j - 1) :
                                /\ body[d].kind = "FunctionDeclaration"
                                /\ body[d].text = name
                                /\ body[d].num = i
                    /\ rt.phase \in {"linked", "executing", "done"} =>
                          \E c \in 1..Len(rt.mem.calls) : rt.mem.calls[c].v = VFunction(name)

\* the file ends with export function f: the factory has returned, no setter and
\* no statement of execute has run, and the exporter has been handed f
FunctionDeclaredLastIsExported ==
    /\ Updated
    /\ Len(InputFile.statements) = MaxStatements
    /\ InputFile.statements[MaxStatements] = [ExportFunctionF EXCEPT !.num = MaxStatements]
    /\ rt.phase = "linked" /\ rt.setter = 1
    /\ Contains(rt.mem.calls, Binding("f", VFunction("f")))

-----------------------------------------------------------------------------
(* C8: per-file state reset.  After every call of transformSourceFile that       *)
(* returns, on any sequence of files, every per-file field is undefined (and     *)
(* hasExportStars, once a module has been transformed, false); no call fails     *)
(* the entry assertion; and what a call returns for a file is what a transformer *)
(* that has seen no file returns for it.                                         *)
StateReset ==
    /\ currentSourceFile = None /\ externalImports = None /\ exportSpecifiers = None
    /\ exportEquals = None /\ exportFunctionForFile = None /\ contextObjectForFile = None
    /\ exportedLocalNames = None /\ exportedFunctionDeclarations = None
    /\ hasExportStars \in {None, Some(FALSE)}
    /\ output.result # "fault"
    /\ Updated =>
          /\ hasExportStars = Some(FALSE)
          /\ LET alone == transformSourceFile(compilerOptions, FreshState, InputFile)
             IN  output.updated = alone.updated /\ output.emitted = alone.emitted

\* a second file has been transformed on the same instance
SecondFileTransformed ==
    /\ filesTransformed = MaxFiles
    /\ Updated
    /\ ExportsX(InputFile)
    /\ exportedLocalNames = None /\ exportFunctionForFile = None

-----------------------------------------------------------------------------
\* import {a} from "dep"; export function f() { return a; }
RoundTripFile == SourceFile("a.ts", None, NoRenames, <<ImportNamed, ExportFunctionF>>)

\* the outer scope of the factory the round trip is to give: the module-name
\* variable, the hoisted alias, f without its export modifier, the export of f
RoundTripOuterScope ==
    << createVariableStatement(SynthId("__moduleName"),
           createLogicalAnd(SynthId("context_1"),
                            PropertyAccess(SynthId("context_1"), SynthId("id")))),
       VariableStatement({}, <<VariableDeclaration(SynthId("dep_1"), <<>>)>>),
       [FunctionDeclaration({}, "f", <<>>,
            Block(<<Return(PropertyAccess(SynthId("dep_1"), Id("a")))>>)) EXCEPT !.num = 2],
       Statement(ExporterCall("f", Id("f"))) >>

RoundTripSetters ==
    << FunctionExpression({}, <<Parameter(SynthId("dep_1_1"))>>,
           Block(<<Statement(createAssignment(SynthId("dep_1"), SynthId("dep_1_1")))>>)) >>

(* C9: round-trip shape.  For import {a} from "dep"; export function f() {       *)
(* return a; } the output has the one dependency "dep", one setter that assigns  *)
(* its parameter to the hoisted alias, an empty execute body, and a factory body *)
(* that holds before its return the module-name variable, the alias variable,    *)
(* the declaration of f and the export of f, and nothing else.                   *)
RoundTripShape ==
    (Updated /\ InputFile = RoundTripFile) =>
        /\ DependencyNames(output) = <<Str("dep")>>
        /\ Setters(output) = RoundTripSetters
        /\ ExecuteBody(output) = <<>>
        /\ SubSeq(FactoryBody(output), 1, Len(FactoryBody(output)) - 1) = RoundTripOuterScope

(* C9, the part that holds: the dependency, the setter, the empty execute body   *)
(* and the first four statements of the factory body.                            *)
RoundTripShapeApartFromTheRest ==
    (Updated /\ InputFile = RoundTripFile) =>
        /\ DependencyNames(output) = <<Str("dep")>>
        /\ Setters(output) = RoundTripSetters
        /\ ExecuteBody(output) = <<>>
        /\ SubSeq(FactoryBody(output), 1, 4) = RoundTripOuterScope

-----------------------------------------------------------------------------
\* the external entries of a file, the groups collectDependencyGroups makes of
\* them, and the specifier text an entry is grouped under
EntriesOf(file) == collectExternalModuleInfo(file).externalImports
GroupingState(file) == [FreshState EXCEPT !.currentSourceFile = Some(file)]
GroupsOf(file) == collectDependencyGroups(GroupingState(file), EntriesOf(file)).dependencyGroups
SpecifierText(file, entry) == Get(getExternalModuleNameLiteral(GroupingState(file), entry)).text

(* C4: collectDependencyGroups partitions the external entries.  The names of    *)
(* the groups are pairwise distinct; every entry is in exactly one place of      *)
(* exactly one group, the group named by its specifier text; there are as many   *)
(* groups as specifier texts; the groups come in the order in which their        *)
(* specifier first occurs in the file and the entries of a group in source       *)
(* order; and the output has one dependency and one setter per group.            *)
DependencyGroupsPartition ==
    Updated =>
        LET file == InputFile
            entries == EntriesOf(file)
            groups == GroupsOf(file)
            places == { <<i, p>> : i \in 1..Len(groups), p \in 1..MaxImports }
            at == { pl \in places : pl[2] <= Len(groups[pl[1]].externalImports) }
        IN  /\ \A i, j \in 1..Len(groups) : i # j => groups[i].name.text # groups[j].name.text
            /\ \A k \in 1..Len(entries) :
                  /\ Cardinality({ pl \in at : groups[pl[1]].externalImports[pl[2]] = entries[k] }) = 1
                  /\ \A pl \in at :
                        groups[pl[1]].externalImports[pl[2]] = entries[k] =>
                            groups[pl[1]].name.text = SpecifierText(file, entries[k])
            /\ Cardinality(at) = Len(entries)
            /\ Len(groups) = Cardinality({ SpecifierText(file, entries[k]) : k \in 1..Len(entries) })
            /\ \A i, j \in 1..Len(groups) :
                  i < j => groups[i].externalImports[1].num < groups[j].externalImports[1].num
            /\ \A pl \in at :
                  pl[2] > 1 => groups[pl[1]].externalImports[pl[2] - 1].num
                                   < groups[pl[1]].externalImports[pl[2]].num
            /\ Len(DependencyNames(output)) = Len(groups)
            /\ Len(Setters(output)) = Len(groups)

\* import {a} from "dep"; import {b as a} from "dep2"; import "dep";
\* gives the groups dep (first and third entry) and dep2
TwoImportsOfOneSpecifier ==
    /\ Updated
    /\ InputFile = SourceFile("b.ts", None, NoRenames, <<ImportNamed, ImportRenamed, ImportSideEffect>>)
    /\ DependencyNames(output) = <<Str("dep"), Str("dep2")>>
    /\ Len(GroupsOf(InputFile)[1].externalImports) = 2
    /\ Len(Setters(output)) = 2

-----------------------------------------------------------------------------
(* C5: in the registration call the dependency array and the setters array have  *)
(* one element per dependency group, in the order of the groups: the i-th        *)
(* dependency is the name of the i-th group, the i-th setter is the setter made  *)
(* for the i-th group, and it, and no other setter, assigns its parameter to the *)
(* alias of each entry of that group that has an import clause.  A group of      *)
(* side-effect imports alone has its setter too.                                 *)
SettersMatchDependencies ==
    Updated =>
        LET groups == GroupsOf(InputFile)
            names == DependencyNames(output)
            setters == Setters(output)
            AliasAssignment(entry, setter) ==
                Statement(createAssignment(Get(getLocalNameForExternalImport(entry)),
                                           setter.kids[1].kids[1].kids[1]))
        IN  /\ Len(names) = Len(groups)
            /\ Len(setters) = Len(groups)
            /\ \A i \in 1..Len(groups) :
                  /\ names[i] = Str(SpecifierText(InputFile, groups[i].externalImports[1]))
                  /\ setters[i] = SetterOfGroup(LiveState(InputFile), SynthId("exportStar_1"), groups[i])
                  /\ \A p \in 1..Len(groups[i].externalImports) :
                        LET entry == groups[i].externalImports[p]
                        IN  (entry.kind = "ImportDeclaration" /\ entry.kids # <<>>) =>
                                \A j \in 1..Len(setters) :
                                    Contains(setters[j].kids[2].kids, AliasAssignment(entry, setters[j]))
                                        <=> j = i

\* import "dep"; alone: one dependency, and one setter with an empty body
SideEffectImportHasSetter ==
    /\ Updated
    /\ InputFile = SourceFile("b.ts", None, NoRenames, <<ImportSideEffect>>)
    /\ DependencyNames(output) = <<Str("dep")>>
    /\ Len(Setters(output)) = 1
    /\ Setters(output)[1].kids[2].kids = <<>>

-----------------------------------------------------------------------------
IsReadOfA(stmt) == [stmt EXCEPT !.num = 0] = ReadA

\* the statement emitted for the source statement at position i
EmittedFor(i) ==
    LET statements == IF output.result = "updated" THEN ExecuteBody(output) ELSE Get(output.emitted)
    IN  statements[CHOOSE j \in 1..Len(statements) : statements[j].num = i]

\* the name the dependency exports a binding under, and whether it is a keyword
MemberOf(declaration) ==
    CASE declaration.kind = "ImportClause" -> [name |-> "default", keyword |-> TRUE]
      [] declaration.kind = "ImportSpecifier" ->
            [name |-> IF declaration.prop # "" THEN declaration.prop ELSE declaration.text,
             keyword |-> HasModifier(declaration, "originalKeywordKind")]
      [] OTHER -> [name |-> "", keyword |-> FALSE]

\* the read of a in y = a is emitted as the claim says for the binding of a
ReadSubstituted(i, binding) ==
    LET read == EmittedFor(i).kids[1].kids[2]
    IN  IF ~IsSome(binding) THEN read = Id("a")
        ELSE LET alias == Get(getLocalNameForExternalImport(Get(binding).importDeclaration))
                 member == MemberOf(Get(binding).declaration)
             IN  /\ read.kind \in {"PropertyAccessExpression", "ElementAccessExpression"}
                 /\ read.kids[1] = alias
                 /\ member.name # "" =>
                       /\ read.kids[2].text = member.name
                       /\ read.kind = "ElementAccessExpression"
                             <=> (compilerOptions.target = "ES3" /\ member.keyword)
                       /\ read.kind = "ElementAccessExpression" => read.kids[2] = Str(member.name)

(* C10: identifier read substitution.  In y = a, an a that the resolver reports  *)
(* as bound to an import is emitted as a member access on the generated alias of *)
(* the import's declaration: the member is "default" for a default import, and   *)
(* for an import specifier the name the dependency exports (propertyName if      *)
(* there is one, else the name); the access is indexed, alias["name"], exactly    *)
(* when the target is ES3 and the member name is a keyword; an a that is bound   *)
(* to no import is emitted unchanged.                                            *)
IdentifierReadSubstitution ==
    (IsSome(input) /\ output.result \in {"updated", "unchanged"}) =>
        \A i \in 1..Len(InputFile.statements) :
            IsReadOfA(InputFile.statements[i]) =>
                ReadSubstituted(i, getReferencedImportDeclaration(InputFile, Id("a")))

(* C10, for the bindings createImportBinding handles: the same property of every *)
(* file in which a is bound to no namespace import and no import-equals alias.   *)
ReadOfNamedOrDefaultImportSubstituted ==
    (IsSome(input) /\ output.result \in {"updated", "unchanged"}) =>
        \A i \in 1..Len(InputFile.statements) :
            IsReadOfA(InputFile.statements[i]) =>
                LET binding == getReferencedImportDeclaration(InputFile, Id("a"))
                IN  (IsSome(binding) => Get(binding).declaration.kind \in {"ImportClause", "ImportSpecifier"}) =>
                        ReadSubstituted(i, binding)

-----------------------------------------------------------------------------
\* the variables the factory body declares without a value (the hoisted ones)
HoistedNames(out) ==
    UNION { { stmt.kids[i].kids[1].text : i \in 1..Len(stmt.kids) } :
               stmt \in { FactoryBody(out)[k] :
                              k \in { j \in 1..Len(FactoryBody(out)) :
                                          /\ FactoryBody(out)[j].kind = "VariableStatement"
                                          /\ \A i \in 1..Len(FactoryBody(out)[j].kids) :
                                                 Len(FactoryBody(out)[j].kids[i].kids) = 1 } } }

\* the local alias the source gives an entry: the name bound by an import-equals,
\* otherwise the name generated for the declaration
AliasOf(entry) ==
    IF entry.kind = "ImportEqualsDeclaration" THEN entry.prop
    ELSE entry.text \o "_" \o ToString(entry.num)

\* the statements the setter of a group is to hold for one entry
SetterStatementsFor(entry, parameter) ==
    CASE entry.kind = "ImportDeclaration" /\ entry.kids = <<>> -> <<>>
      [] entry.kind \in {"ImportDeclaration", "ImportEqualsDeclaration"} ->
            <<Statement(Bin("=", SynthId(AliasOf(entry)), parameter))>>
      [] entry.kind = "ExportDeclaration" /\ entry.kids # <<>> ->
            <<Statement(Call(SynthId("exports_1"),
                <<ObjectLit([i \in 1..Len(entry.kids) |->
                    PropertyAssignment(Str(entry.kids[i].text),
                        ElementAccess(parameter,
                            Str(IF entry.kids[i].prop # "" THEN entry.kids[i].prop
                                ELSE entry.kids[i].text)))])>>))>>
      [] OTHER -> <<Statement(Call(SynthId("exportStar_1"), <<parameter>>))>>

(* C11: setter body.  The body of the setter of each dependency group holds, in  *)
(* the source order of the group's entries, the statement of each entry and      *)
(* nothing else: an import with a clause or an import-equals assigns the         *)
(* parameter to the entry's alias, which the factory body declares; a re-export  *)
(* with a clause calls the exporter once with an object literal that maps each   *)
(* exported name to parameter[original name]; a bare export-star calls the star  *)
(* helper with the parameter; a side-effect import gives no statement.           *)
SetterBody ==
    Updated =>
        LET groups == GroupsOf(InputFile)
            setters == Setters(output)
        IN  /\ Len(setters) = Len(groups)
            /\ \A i \in 1..Len(groups) :
                  LET parameter == setters[i].kids[1].kids[1].kids[1]
                      entries == groups[i].externalImports
                  IN  /\ setters[i].kids[2].kids =
                            Flatten([p \in 1..Len(entries) |-> SetterStatementsFor(entries[p], parameter)])
                      /\ \A p \in 1..Len(entries) :
                            (\/ entries[p].kind = "ImportEqualsDeclaration"
                             \/ entries[p].kind = "ImportDeclaration" /\ entries[p].kids # <<>>) =>
                                AliasOf(entries[p]) \in HoistedNames(output)

\* export {b as c} from "dep"; import r = require("dep"); export * from "m";
\* the setter of dep exports {"c": p["b"]} and then assigns r, the setter of m
\* calls the star helper
SetterOfRenamedReExport ==
    /\ Updated
    /\ InputFile = SourceFile("d.ts", None, NoRenames, <<ExportRenamedFromDep, ImportEquals, ExportStar>>)
    /\ Len(Setters(output)) = 2
    /\ LET p == Setters(output)[1].kids[1].kids[1].kids[1]
       IN  Setters(output)[1].kids[2].kids =
              <<Statement(Call(SynthId("exports_1"),
                    <<ObjectLit(<<PropertyAssignment(Str("c"), ElementAccess(p, Str("b")))>>)>>)),
                Statement(Bin("=", SynthId("r"), p))>>
    /\ LET q == Setters(output)[2].kids[1].kids[1].kids[1]
       IN  Setters(output)[2].kids[2].kids = <<Statement(Call(SynthId("exportStar_1"), <<q>>))>>

-----------------------------------------------------------------------------
\* the text a raw specifier stands for under the rename table of a file
RenamedText(file, raw) ==
    IF \E r \in file.renamedDependencies : r.from = raw
    THEN (CHOOSE r \in file.renamedDependencies : r.from = raw).to
    ELSE raw

\* the groups an entry of the file is in
GroupsHolding(file, entry) ==
    { i \in 1..Len(GroupsOf(file)) : Contains(GroupsOf(file)[i].externalImports, entry) }

(* C12: grouping uses the specifier text after renaming.  Two entries are in one *)
(* group exactly when their specifiers, each replaced by what the file's rename  *)
(* table maps it to, are the same text: so two different raw specifiers renamed  *)
(* to one text share a group, and an entry renamed to T joins the entries whose  *)
(* raw specifier is T.  The dependency string of a group is the renamed text.    *)
(* Grouping the same entries again, whatever else the file state holds, gives    *)
(* the same groups.                                                              *)
GroupingAfterRenaming ==
    Updated =>
        LET file == InputFile
            entries == EntriesOf(file)
            groups == GroupsOf(file)
        IN  /\ \A a, b \in 1..Len(entries) :
                  (GroupsHolding(file, entries[a]) = GroupsHolding(file, entries[b]))
                      <=> (RenamedText(file, entries[a].text) = RenamedText(file, entries[b].text))
            /\ \A a \in 1..Len(entries) : Cardinality(GroupsHolding(file, entries[a])) = 1
            /\ Len(DependencyNames(output)) = Len(groups)
            /\ \A i \in 1..Len(groups) :
                  DependencyNames(output)[i] = Str(RenamedText(file, groups[i].externalImports[1].text))
            /\ collectDependencyGroups(LiveState(file), entries).dependencyGroups = groups

\* import {b as a} from "dep2"; export * from "m"; with dep2 and m both renamed
\* to lib: one group of two entries, one dependency "lib"
TwoSpecifiersRenamedToOne ==
    /\ Updated
    /\ InputFile = SourceFile("e.ts", None,
                              {[from |-> "dep2", to |-> "lib"], [from |-> "m", to |-> "lib"]},
                              <<ImportRenamed, ExportStar>>)
    /\ DependencyNames(output) = <<Str("lib")>>
    /\ Len(GroupsOf(InputFile)) = 1
    /\ Len(GroupsOf(InputFile)[1].externalImports) = 2

-----------------------------------------------------------------------------
\* the positions of the statements of a file that satisfy P
Positions(file, P(_)) == { i \in 1..Len(file.statements) : P(file.statements[i]) }

IsBareExportStar(stmt) == HasModuleSpecifier(stmt) /\ ~HasExportClause(stmt)

\* the star helper and the exported-names map in a factory body
IsStarHelper(stmt) == stmt.kind = "FunctionDeclaration" /\ stmt.text = "exportStar_1"
IsExportedNamesMap(stmt) ==
    /\ stmt.kind = "VariableStatement"
    /\ Len(stmt.kids) = 1
    /\ stmt.kids[1].kids[1] = SynthId("exportedNames_1")
HasStarHelper(out) == \E i \in 1..Len(FactoryBody(out)) : IsStarHelper(FactoryBody(out)[i])
HasExportedNamesMap(out) == \E i \in 1..Len(FactoryBody(out)) : IsExportedNamesMap(FactoryBody(out)[i])

(* C13: the star helper is in the factory body if and only if the file has a     *)
(* bare export-star declaration; a file without one gets no helper function and  *)
(* no exported-names map.                                                        *)
StarHelperOnlyForStarExports ==
    Updated =>
        /\ HasStarHelper(output) <=> Positions(InputFile, IsBareExportStar) # {}
        /\ Positions(InputFile, IsBareExportStar) = {} => ~HasExportedNamesMap(output)

(* C13, the half that holds: a file with a bare export-star gets the helper, and *)
(* the recorded flag says whether the file has one.                              *)
StarExportsGetTheHelper ==
    Updated =>
        /\ Positions(InputFile, IsBareExportStar) # {} => HasStarHelper(output)
        /\ LiveState(InputFile).hasExportStars = Some(Positions(InputFile, IsBareExportStar) # {})

-----------------------------------------------------------------------------
IsLocalExportClause(stmt) ==
    stmt.kind = "ExportDeclaration" /\ ~HasModuleSpecifier(stmt) /\ stmt.kids # <<>>
IsNamedReExport(stmt) == HasModuleSpecifier(stmt) /\ HasExportClause(stmt)

\* the Exported-Name Registry of the file while it is the current one
Registry(file) == OrEmpty(LiveState(file).exportedLocalNames)

\* the exported keys of the named re-exports of a file, in source order
ReExportedKeys(file) ==
    LET clauses == SelectSeq(file.statements, IsNamedReExport)
        specifiers == Flatten([i \in 1..Len(clauses) |-> clauses[i].kids])
    IN  [i \in 1..Len(specifiers) |-> specifiers[i].text]

\* the test the star helper makes on a key n of the namespace
StarHelperTest(out) ==
    LET helper == FactoryBody(out)[CHOOSE i \in 1..Len(FactoryBody(out)) : IsStarHelper(FactoryBody(out)[i])]
    IN  helper.kids[2].kids[2].kids[3].kids[1].kids[1]
ExportedNamesMap(out) ==
    FactoryBody(out)[CHOOSE i \in 1..Len(FactoryBody(out)) : IsExportedNamesMap(FactoryBody(out)[i])].kids[1].kids[2]

(* C14: exclusion map.  The exported-names map is emitted, and the helper tests  *)
(* a key against it, exactly when the registry has a name, the file has a local  *)
(* export specifier, or the file has a re-export with a clause.  Its keys are    *)
(* then the names of the registry in order, followed by the exported name (not   *)
(* the original name) of every specifier of every named re-export in source      *)
(* order, each mapped to true.  Otherwise the helper excludes "default" alone.   *)
ExclusionMap ==
    Updated =>
        LET file == InputFile
            n == SynthId("n")
            keys == [i \in 1..Len(Registry(file)) |-> Registry(file)[i].text] \o ReExportedKeys(file)
            needed == \/ Registry(file) # <<>>
                      \/ Positions(file, IsLocalExportClause) # {}
                      \/ Positions(file, IsNamedReExport) # {}
        IN  /\ HasExportedNamesMap(output) <=> needed
            /\ needed =>
                  /\ ExportedNamesMap(output) =
                        ObjectLit([i \in 1..Len(keys) |-> PropertyAssignment(Str(keys[i]), True)])
                  /\ StarHelperTest(output) =
                        Bin("&&", Bin("!==", n, Str("default")),
                            Prefix("!", Call(PropertyAccess(SynthId("exportedNames_1"),
                                                            SynthId("hasOwnProperty")), <<n>>)))
            /\ ~needed => StarHelperTest(output) = Bin("!==", n, Str("default"))

\* export {b as c} from "dep2"; export var x = 5;  the map is {"x": true, "c": true}
MapOfLocalAndReExportedNames ==
    /\ Updated
    /\ InputFile = SourceFile("f.ts", None, NoRenames, <<ExportNamedFrom, ExportVarX>>)
    /\ ExportedNamesMap(output) =
          ObjectLit(<<PropertyAssignment(Str("x"), True), PropertyAssignment(Str("c"), True)>>)

-----------------------------------------------------------------------------
IsDefaultExportedFunction(stmt) == IsExportedFunction(stmt) /\ HasModifier(stmt, "Default")

\* how often a name is in the registry of the file
TimesRecorded(file, name) ==
    Cardinality({ i \in 1..Len(Registry(file)) : Registry(file)[i].text = name })

\* how often the statements of a file other than its function declarations
\* export something under a name
TimesExportedOtherwise(file, name) ==
    Cardinality({ i \in 1..Len(file.statements) :
                     /\ file.statements[i].kind \in {"VariableStatement", "ClassDeclaration"}
                     /\ HasModifier(file.statements[i], "Export")
                     /\ ~HasModifier(file.statements[i], "Default")
                     /\ name \in DeclaredNames(file.statements[i]) })
    + Cardinality({ i \in 1..Len(file.statements) :
                       /\ IsLocalExportClause(file.statements[i])
                       /\ \E j \in 1..Len(file.statements[i].kids) :
                              /\ file.statements[i].kids[j].text = name
                              /\ isValueAliasDeclaration(file.statements[i].kids[j]) })

\* the names of the exported function declarations of a file
ExportedFunctionNames(file) ==
    { file.statements[i].text : i \in Positions(file, IsExportedFunction) }

(* C15: visitFunctionDeclaration adds the name of an exported function to the    *)
(* registry exactly once when the function is not the default export, and not    *)
(* at all when it is (`export default function g`): the registry holds a         *)
(* function's name once per non-default exported declaration of that name.       *)
DefaultFunctionNotRecorded ==
    Updated =>
        \A name \in ExportedFunctionNames(InputFile) :
            TimesRecorded(InputFile, name) =
                Cardinality({ i \in Positions(InputFile, IsExportedFunction) :
                                 /\ InputFile.statements[i].text = name
                                 /\ ~HasModifier(InputFile.statements[i], "Default") })
                + TimesExportedOtherwise(InputFile, name)

(* C15, the half that holds: a non-default exported function is recorded once.   *)
ExportedFunctionRecordedOnce ==
    Updated =>
        \A name \in ExportedFunctionNames(InputFile) :
            (\A i \in Positions(InputFile, IsExportedFunction) :
                 InputFile.statements[i].text = name => ~HasModifier(InputFile.statements[i], "Default"))
            => TimesRecorded(InputFile, name) =
                   Cardinality({ i \in Positions(InputFile, IsExportedFunction) :
                                    InputFile.statements[i].text = name })
                   + TimesExportedOtherwise(InputFile, name)

-----------------------------------------------------------------------------
\* the export statements queued for the function declarations of the file
QueuedFunctionExports(file) == OrEmpty(LiveState(file).exportedFunctionDeclarations)

\* the key an exported declaration is to be published under
ExportKeyOf(stmt) == IF HasModifier(stmt, "Default") THEN "default" ELSE stmt.text

(* C16: the export statement queued for an exported function declaration         *)
(* publishes the function under "default" when the declaration is the default    *)
(* export and under its own name otherwise, going by the modifiers of the        *)
(* declaration in the source: one statement per exported function, in source     *)
(* order, and these statements are in the factory body.                          *)
QueuedFunctionExportKey ==
    Updated =>
        LET functions == SelectSeq(InputFile.statements, IsExportedFunction)
        IN  /\ QueuedFunctionExports(InputFile) =
                  [i \in 1..Len(functions) |->
                      Statement(ExporterCall(ExportKeyOf(functions[i]), Id(functions[i].text)))]
            /\ \A i \in 1..Len(functions) :
                  Contains(FactoryBody(output), QueuedFunctionExports(InputFile)[i])

(* C16, the half that holds: a function that is exported but not the default is  *)
(* published under its own name.                                                 *)
NonDefaultFunctionExportKey ==
    (Updated /\ Positions(InputFile, IsDefaultExportedFunction) = {}) => QueuedFunctionExportKey

-----------------------------------------------------------------------------
IsClass(stmt) == stmt.kind = "ClassDeclaration"

\* the output of the statement rewriter, before the emitter has touched it
Rewritten == [output EXCEPT !.emitted = Some(Get(output.updated).statements)]

\* the per-file state as the worker has set it up when the visit of the
\* statements begins
EntryState(file) ==
    WithModuleInfo([FreshState EXCEPT !.currentSourceFile = Some(file)],
                   collectExternalModuleInfo(file))

\* what the visitor puts into execute for the statement at position i
ExecutePartOf(file, i) == visitSourceElement(EntryState(file), file.statements[i]).out

\* what a class declaration is to leave in execute
ClassReplacement(stmt) ==
    <<Statement(Bin("=", Id(stmt.text), ClassExpression(stmt.text)))>>
    \o (IF HasModifier(stmt, "Export")
        THEN <<Statement(ExporterCall(ExportKeyOf(stmt), Id(stmt.text)))>>
        ELSE <<>>)

\* how often the function and variable declarations and the export clauses of a
\* file export something under a name
TimesExportedByOthersThanClasses(file, name) ==
    Cardinality({ i \in 1..Len(file.statements) :
                     /\ file.statements[i].kind \in {"VariableStatement", "FunctionDeclaration"}
                     /\ HasModifier(file.statements[i], "Export")
                     /\ name \in DeclaredNames(file.statements[i]) })
    + Cardinality({ i \in 1..Len(file.statements) :
                       /\ IsLocalExportClause(file.statements[i])
                       /\ \E j \in 1..Len(file.statements[i].kids) :
                              /\ file.statements[i].kids[j].text = name
                              /\ isValueAliasDeclaration(file.statements[i].kids[j]) })

(* C17: a class declaration is replaced in place: execute is the statements of   *)
(* the file's statements in source order, and those of a class declaration are   *)
(* `name = class {...}`, followed at once, if the class is exported, by exactly  *)
(* one exporter statement whose key is "default" for a default export and the    *)
(* class name otherwise; a class that is not exported leaves the assignment      *)
(* alone.  The name is hoisted as a variable of the factory body, and it is in   *)
(* the registry once per exported non-default class of that name.                *)
ClassReplacedInPlace ==
    Updated =>
        LET file == InputFile
            n == Len(file.statements)
        IN  /\ ExecuteBody(Rewritten) =
                  Flatten([i \in 1..n |->
                      IF IsClass(file.statements[i]) THEN ClassReplacement(file.statements[i])
                      ELSE ExecutePartOf(file, i)])
            /\ \A i \in Positions(file, IsClass) :
                  /\ file.statements[i].text \in HoistedNames(Rewritten)
                  /\ TimesRecorded(file, file.statements[i].text) =
                        Cardinality({ j \in Positions(file, IsClass) :
                                         /\ file.statements[j].text = file.statements[i].text
                                         /\ HasModifier(file.statements[j], "Export")
                                         /\ ~HasModifier(file.statements[j], "Default") })
                        + TimesExportedByOthersThanClasses(file, file.statements[i].text)

\* export default class D { }  export class C { }
\* execute is D = class D {}; exports("default", D); C = class C {}; exports("C", C);
\* and the registry holds C alone
DefaultAndNamedClass ==
    /\ Updated
    /\ InputFile = SourceFile("f.ts", None, NoRenames, <<ExportDefaultClassD, ExportClassC>>)
    /\ ExecuteBody(Rewritten) =
          <<Statement(Bin("=", Id("D"), ClassExpression("D"))),
            Statement(ExporterCall("default", Id("D"))),
            Statement(Bin("=", Id("C"), ClassExpression("C"))),
            Statement(ExporterCall("C", Id("C")))>>
    /\ {"C", "D"} \subseteq HoistedNames(Rewritten)
    /\ Registry(InputFile) = <<Id("C")>>

-----------------------------------------------------------------------------
IsExportAssignment(stmt) == stmt.kind = "ExportAssignment"
IsExportEquals(stmt) == IsExportAssignment(stmt) /\ HasModifier(stmt, "isExportEquals")

\* execute, when the export assignments for which Rewrite holds leave an exporter
\* statement under "default" and the others leave nothing
ExecuteWithExportAssignments(file, Rewrite(_)) ==
    Flatten([i \in 1..Len(file.statements) |->
        IF IsExportAssignment(file.statements[i])
        THEN IF Rewrite(file.statements[i])
             THEN <<Statement(ExporterCall("default", file.statements[i].kids[1]))>>
             ELSE <<>>
        ELSE ExecutePartOf(file, i)])

(* C18: a bare `export =` assignment whose operand denotes a value is rewritten  *)
(* in place to an exporter statement under the key "default" with the operand as *)
(* value; when the operand is not a value the statement is removed.              *)
ExportEqualsRewritten ==
    (Updated /\ Positions(InputFile, IsExportEquals) # {}) =>
        ExecuteBody(Rewritten) =
            ExecuteWithExportAssignments(InputFile,
                LAMBDA stmt : IsExportEquals(stmt) /\ isValueAliasDeclaration(stmt))

(* C18 as the code has it: an export assignment that is not `export =` (that is, *)
(* `export default <expression>`) and whose operand denotes a value is rewritten *)
(* in place to an exporter statement under the key "default" with the operand as *)
(* value; an `export =` assignment, and an export assignment whose operand is    *)
(* not a value, is removed.                                                      *)
ExportDefaultExpressionRewritten ==
    Updated =>
        ExecuteBody(Rewritten) =
            ExecuteWithExportAssignments(InputFile,
                LAMBDA stmt : ~IsExportEquals(stmt) /\ isValueAliasDeclaration(stmt))

\* export default 1;  export = y;   execute is exports("default", 1) alone
DefaultExpressionAndExportEquals ==
    /\ Updated
    /\ InputFile = SourceFile("f.ts", None, NoRenames, <<ExportDefaultExpression, ExportEqualsY>>)
    /\ ExecuteBody(Rewritten) = <<Statement(ExporterCall("default", Num(1)))>>

-----------------------------------------------------------------------------
\* the statements that enclose other statements without opening a function
EnclosingKinds ==
    { "Block", "IfStatement", "WhileStatement", "DoStatement", "LabeledStatement",
      "WithStatement", "SwitchStatement", "CaseBlock", "CaseClause", "DefaultClause",
      "TryStatement", "CatchClause", "ForStatement", "ForInStatement", "ForOfStatement" }

IsDeclarationList(node) == node.kind = "VariableDeclarationList"

\* the assignments the declarators of a variable statement or declaration list
\* come to (simple names), in source order
AssignmentsOf(declarations) ==
    LET initialized == SelectSeq(declarations, LAMBDA d : Len(d.kids) = 2)
    IN  [i \in 1..Len(initialized) |-> Bin("=", initialized[i].kids[1], initialized[i].kids[2])]

RECURSIVE Lowered(_)
\* what a statement is to become: declarations outside function bodies give way to
\* assignments, whatever encloses them
Lowered(node) ==
    CASE node.kind = "VariableStatement" ->
            IF AssignmentsOf(node.kids) = <<>> THEN <<>>
            ELSE <<Statement(inlineExpressions(AssignmentsOf(node.kids)))>>
      [] node.kind = "FunctionDeclaration" -> <<>>
      [] node.kind = "ClassDeclaration" ->
            <<Statement(Bin("=", Id(node.text), ClassExpression(node.text)))>>
      [] node.kind = "ForStatement" /\ IsDeclarationList(node.kids[1]) ->
            <<[node EXCEPT !.kids = <<IF AssignmentsOf(node.kids[1].kids) = <<>> THEN Omitted
                                       ELSE inlineExpressions(AssignmentsOf(node.kids[1].kids))>>
                                    \o <<node.kids[2], node.kids[3]>> \o Lowered(node.kids[4])]>>
      [] node.kind \in {"ForInStatement", "ForOfStatement"} /\ IsDeclarationList(node.kids[1]) ->
            <<[node EXCEPT !.kids = <<node.kids[1].kids[1].kids[1], node.kids[2]>>
                                    \o Lowered(node.kids[3])]>>
      [] node.kind \in EnclosingKinds ->
            <<[node EXCEPT !.kids = Flatten([i \in 1..Len(node.kids) |-> Lowered(node.kids[i])])]>>
      [] OTHER -> <<node>>

RECURSIVE VariablesDeclaredIn(_)
\* the names a statement declares as variables or classes outside function bodies
VariablesDeclaredIn(node) ==
    CASE node.kind \in {"VariableStatement", "VariableDeclarationList"} ->
            { node.kids[i].kids[1].text : i \in 1..Len(node.kids) }
      [] node.kind = "ClassDeclaration" -> {node.text}
      [] node.kind \in EnclosingKinds ->
            UNION { VariablesDeclaredIn(node.kids[i]) : i \in 1..Len(node.kids) }
      [] OTHER -> {}

RECURSIVE FunctionsDeclaredIn(_)
\* the function declarations in a statement, outside function bodies
FunctionsDeclaredIn(node) ==
    CASE node.kind = "FunctionDeclaration" -> {node}
      [] node.kind \in EnclosingKinds ->
            UNION { FunctionsDeclaredIn(node.kids[i]) : i \in 1..Len(node.kids) }
      [] OTHER -> {}

RECURSIVE HoldsIf(_)
HoldsIf(node) ==
    \/ node.kind = "IfStatement"
    \/ node.kind \in EnclosingKinds /\ \E i \in 1..Len(node.kids) : HoldsIf(node.kids[i])

WithoutPosition(statements) == [i \in 1..Len(statements) |-> [statements[i] EXCEPT !.num = 0]]

(* C19: nested declarations.  A variable statement, function declaration or      *)
(* class declaration nested at any depth in a loop, an if/else branch, a         *)
(* try/catch/finally, a switch clause, a labeled statement, a with statement or  *)
(* a block of the top level is rewritten as a top-level one is, whatever         *)
(* encloses it: execute holds the enclosing statements with assignments in place *)
(* of the declarations, the variable and class names are exactly the variables   *)
(* hoisted into the factory body, and the function declarations are there too.   *)
(* What a function body declares stays in the function.                          *)
NestedDeclarationsRewritten ==
    Updated =>
        LET statements == InputFile.statements
            n == Len(statements)
        IN  /\ WithoutPosition(ExecuteBody(Rewritten)) =
                  WithoutPosition(Flatten([i \in 1..n |-> Lowered(statements[i])]))
            /\ HoistedNames(Rewritten) = UNION { VariablesDeclaredIn(statements[i]) : i \in 1..n }
            /\ \A i \in 1..n : \A f \in FunctionsDeclaredIn(statements[i]) :
                  Contains(FactoryBody(Rewritten), f)

(* C19, the part that holds: all of it for a file without an if statement.       *)
NestedDeclarationsRewrittenOutsideIf ==
    (Updated /\ \A i \in 1..Len(InputFile.statements) : ~HoldsIf(InputFile.statements[i]))
        => NestedDeclarationsRewritten

-----------------------------------------------------------------------------
IsVariableStatement(stmt) == stmt.kind = "VariableStatement"

RECURSIVE BoundNames(_)
\* the simple names a declaration or binding element binds, in source order
BoundNames(node) ==
    LET name == node.kids[1]
    IN  IF name.kind = "Identifier" THEN <<name.text>>
        ELSE Flatten([i \in 1..Len(name.kids) |-> BoundNames(name.kids[i])])

\* the simple names a variable statement binds, in source order
NamesBoundBy(stmt) == Flatten([i \in 1..Len(stmt.kids) |-> BoundNames(stmt.kids[i])])

\* the expression a declarator with an initializer is to come to
ExpressionOfDeclarator(declaration) ==
    IF declaration.kids[1].kind = "Identifier"
    THEN Bin("=", declaration.kids[1], declaration.kids[2])
    ELSE flattenVariableDestructuringToExpression(declaration)

RECURSIVE CommaOperands(_, _)
\* the first n operands of a comma expression of n operands, left to right
CommaOperands(expression, n) ==
    IF n = 1 THEN <<expression>>
    ELSE IF expression.kind = "BinaryExpression" /\ expression.text = ","
    THEN Append(CommaOperands(expression.kids[1], n - 1), expression.kids[2])
    ELSE <<>>

\* whether the statements are what a variable statement is to leave in execute
IsVariableReplacement(statements, stmt) ==
    LET initialized == SelectSeq(stmt.kids, LAMBDA d : Len(d.kids) = 2)
    IN  IF initialized = <<>> THEN statements = <<>>
        ELSE /\ Len(statements) = 1
             /\ statements[1].kind = "ExpressionStatement"
             /\ CommaOperands(statements[1].kids[1], Len(initialized)) =
                   [i \in 1..Len(initialized) |-> ExpressionOfDeclarator(initialized[i])]

(* C20: variable statement rewrite.  Every simple name a variable statement      *)
(* binds, names inside binding patterns included, is hoisted as a variable of    *)
(* the factory body; if the statement is exported each of these names is put in  *)
(* the registry, in source order, whether or not its declarator has an           *)
(* initializer.  A declarator without initializer gives no expression, one with  *)
(* an initializer gives `name = initializer`, or the flattened destructuring, and *)
(* the expressions of a statement stand in source order in one expression        *)
(* statement; a statement none of whose declarators has an initializer is        *)
(* removed.  The rewrite itself produces no exporter call.                       *)
VariableStatementRewrite ==
    Updated =>
        LET statements == InputFile.statements
            n == Len(statements)
            exported == SelectSeq(statements,
                            LAMBDA s : IsVariableStatement(s) /\ HasModifier(s, "Export"))
        IN  /\ \A i \in Positions(InputFile, IsVariableStatement) :
                  /\ IsVariableReplacement(ExecutePartOf(InputFile, i), statements[i])
                  /\ \A k \in 1..Len(NamesBoundBy(statements[i])) :
                        NamesBoundBy(statements[i])[k] \in HoistedNames(Rewritten)
            /\ ExecuteBody(Rewritten) = Flatten([i \in 1..n |-> ExecutePartOf(InputFile, i)])
            /\ [i \in 1..Len(Registry(InputFile)) |-> Registry(InputFile)[i].text] =
                  Flatten([i \in 1..Len(exported) |-> NamesBoundBy(exported[i])])
            /\ \A i \in 1..Len(ExecuteBody(Rewritten)) : ExporterCalls(ExecuteBody(Rewritten)[i]) = 0

\* export var p = 1, q, r = 2;  export var u;
\* execute is the one statement p = 1, r = 2; p, q, r and u are hoisted and recorded
DeclaratorsWithAndWithoutInitializer ==
    /\ Updated
    /\ InputFile = SourceFile("h.ts", None, NoRenames, <<ExportVarPQR, ExportVarU>>)
    /\ ExecuteBody(Rewritten) =
          <<Statement(Bin(",", Bin("=", Id("p"), Num(1)), Bin("=", Id("r"), Num(2))))>>
    /\ HoistedNames(Rewritten) = {"p", "q", "r", "u"}
    /\ Registry(InputFile) = <<Id("p"), Id("q"), Id("r"), Id("u")>>

-----------------------------------------------------------------------------
RECURSIVE IdentifierLeaves(_)
\* the identifiers a destructuring target assigns to
IdentifierLeaves(target) ==
    CASE target.kind = "Identifier" -> {target.text}
      [] target.kind = "ShorthandPropertyAssignment" -> {target.text}
      [] target.kind = "PropertyAssignment" -> IdentifierLeaves(target.kids[2])
      [] target.kind = "SpreadElementExpression" -> IdentifierLeaves(target.kids[1])
      [] target.kind = "BinaryExpression" /\ target.text = "=" -> IdentifierLeaves(target.kids[1])
      [] target.kind \in {"ArrayLiteralExpression", "ObjectLiteralExpression"} ->
            UNION {IdentifierLeaves(target.kids[i]) : i \in 1..Len(target.kids)}
      [] OTHER -> {}

RECURSIVE HasSpreadOfPattern(_)
\* whether some rest element of the target has a pattern as its operand
HasSpreadOfPattern(target) ==
    \/ /\ target.kind = "SpreadElementExpression"
       /\ target.kids[1].kind \in {"ArrayLiteralExpression", "ObjectLiteralExpression"}
    \/ \E i \in 1..Len(target.kids) : HasSpreadOfPattern(target.kids[i])

RECURSIVE LeftmostOperand(_)
LeftmostOperand(expression) ==
    IF expression.kind = "BinaryExpression" /\ expression.text = ","
    THEN LeftmostOperand(expression.kids[1])
    ELSE expression

\* the assignment to a pattern the file holds, and what was emitted for it
PatternAssignment == InputFile.statements[2].kids[1]
EmittedAssignment == ExecuteBody(output)[2].kids[1]
ExportedLeaf == \E l \in IdentifierLeaves(PatternAssignment.kids[1]) : isExportedBinding(InputFile, Id(l))

\* the assignment was flattened: a temporary takes the value first, and the
\* exported leaf is assigned inside an exporter call
IsFlattened ==
    /\ LeftmostOperand(EmittedAssignment) = Bin("=", SynthId("_a"), PatternAssignment.kids[2])
    /\ ExporterCalls(EmittedAssignment) >= 1

DetectionMatches ==
    /\ hasExportedReferenceInDestructuringPattern(InputFile, PatternAssignment.kids[1]) = ExportedLeaf
    /\ IF ExportedLeaf THEN IsFlattened ELSE EmittedAssignment = PatternAssignment

(* C21: destructuring detection is complete.  For an assignment to a pattern     *)
(* built from nested object and array patterns, shorthand properties, property   *)
(* assignments, defaulted elements and rest elements of an identifier or of a    *)
(* pattern, hasExportedReferenceInDestructuringPattern is true exactly when some *)
(* identifier leaf of the pattern is an exported binding of the file; when true  *)
(* the assignment is flattened, when false it is emitted as it was.              *)
DestructuringDetectionComplete ==
    Updated => DetectionMatches

\* the same, for the patterns none of whose rest elements has a pattern as operand
DestructuringDetectionApartFromRestPatterns ==
    (Updated /\ ~HasSpreadOfPattern(PatternAssignment.kids[1])) => DetectionMatches

-----------------------------------------------------------------------------
IsNamespaceBody(stmt) ==
    /\ stmt.kind = "ExpressionStatement"
    /\ stmt.kids[1].kind = "CallExpression"
    /\ stmt.kids[1].kids[1].kind = "FunctionExpression"

\* the statement a namespace body holds
MemberStatement(stmt) == stmt.kids[1].kids[1].kids[2].kids[1]

IsPatternAssignment(stmt) ==
    /\ stmt.kind = "ExpressionStatement"
    /\ stmt.kids[1].kind = "BinaryExpression"
    /\ stmt.kids[1].kids[1].kind \in {"ArrayLiteralExpression", "ObjectLiteralExpression"}

(* C22: an identifier is an exported binding only when the export container the  *)
(* resolver reports for it is the source file.  The rewrite of an assignment to  *)
(* an identifier, the rewrite of a postfix operator and the check of a pattern   *)
(* all make this test, so an identifier whose container is not the file, such as *)
(* an exported member of a namespace, is put in an exporter call by none of them. *)
NamespaceMemberNeverWrapped ==
    Updated =>
        \A i \in Positions(InputFile, IsNamespaceBody) : ExporterCalls(EmittedFor(i)) = 0

\* the pattern check alone makes the test: an assignment to a pattern whose only
\* exported leaves are members of a namespace is emitted as it was
NamespaceMemberInPatternNotWrapped ==
    Updated =>
        \A i \in Positions(InputFile, IsNamespaceBody) :
            IsPatternAssignment(MemberStatement(InputFile.statements[i])) =>
                EmittedFor(i) = InputFile.statements[i]

-----------------------------------------------------------------------------
\* the name a specifier exports from the file's scope
LocalNameOf(specifier) == IF specifier.prop # "" THEN specifier.prop ELSE specifier.text

\* whether the resolver takes the specifier for a runtime value
DenotesValue(file, specifier) ==
    \/ \E i \in 1..Len(file.statements) :
          /\ file.statements[i].kind \in {"VariableStatement", "FunctionDeclaration", "ClassDeclaration"}
          /\ LocalNameOf(specifier) \in DeclaredNames(file.statements[i])
    \/ HasModifier(specifier, "value")

ValueSpecifiers(file, stmt) == SelectSeq(stmt.kids, LAMBDA s : DenotesValue(file, s))

\* the names a statement is to add to the Exported-Name Registry
RegistryPartOf(file, stmt) ==
    CASE IsLocalExportClause(stmt) ->
            [i \in 1..Len(ValueSpecifiers(file, stmt)) |-> ValueSpecifiers(file, stmt)[i].text]
      [] IsVariableStatement(stmt) /\ HasModifier(stmt, "Export") -> NamesBoundBy(stmt)
      [] OTHER -> <<>>

(* C23: a local export declaration `export { a, b as c }` leaves in execute, in  *)
(* the order of its specifiers, one exporter statement for every specifier that  *)
(* denotes a runtime value, keyed by the exported name ("c") with the local name *)
(* (b) as value, and nothing for a specifier that is not a value; the exported   *)
(* name of a specifier is in the Exported-Name Registry exactly when its         *)
(* exporter statement is emitted.                                                *)
LocalExportSpecifiers ==
    Updated =>
        /\ \A i \in Positions(InputFile, IsLocalExportClause) :
              ExecutePartOf(InputFile, i) =
                  [k \in 1..Len(ValueSpecifiers(InputFile, InputFile.statements[i])) |->
                      LET specifier == ValueSpecifiers(InputFile, InputFile.statements[i])[k]
                      IN  Statement(ExporterCall(specifier.text, Id(LocalNameOf(specifier))))]
        /\ ExecuteBody(Rewritten) =
              Flatten([i \in 1..Len(InputFile.statements) |-> ExecutePartOf(InputFile, i)])
        /\ [i \in 1..Len(Registry(InputFile)) |-> Registry(InputFile)[i].text] =
              Flatten([i \in 1..Len(InputFile.statements) |->
                          RegistryPartOf(InputFile, InputFile.statements[i])])

\* var y;  export {x, T, y as c};
\* only y denotes a value: execute holds exports_1("c", y) alone, the registry c alone
OneSpecifierOfThreeIsAValue ==
    /\ Updated
    /\ InputFile = SourceFile("k.ts", None, NoRenames, <<VarY, ExportSeveral>>)
    /\ ExecuteBody(Rewritten) = <<Statement(ExporterCall("c", Id("y")))>>
    /\ Registry(InputFile) = <<Id("c")>>

-----------------------------------------------------------------------------
RECURSIVE CallsOfUndefined(_)
\* how many calls a tree holds whose callee is undefined
CallsOfUndefined(node) ==
    LET F[i \in 0..Len(node.kids)] ==
            IF i = 0 THEN 0 ELSE F[i - 1] + CallsOfUndefined(node.kids[i])
    IN  F[Len(node.kids)]
        + (IF node.kind = "CallExpression" /\ node.kids[1] = Undefined THEN 1 ELSE 0)

\* the exporter identifier generated for the file: the first parameter of its factory
ExporterOfFactory(out) == Factory(out).kids[1].kids[1].kids[1]

\* the printed file
Printed == Get(output.emitted)

(* C24: the expression substitutor runs only while the per-file state of the     *)
(* file that owns the expression is live.  In every order of transformSourceFile *)
(* calls and emission-time calls of the hook on one transformer, whenever the    *)
(* hook builds an exporter call exportFunctionForFile is defined and is the      *)
(* exporter identifier generated for that file: the callee of every exporter     *)
(* call in the printed file is the first parameter of the file's factory, never  *)
(* undefined.                                                                    *)
ExporterLiveAtSubstitution ==
    (Updated /\ IsSome(output.emitted)) =>
        /\ \A i \in 1..Len(Printed) : CallsOfUndefined(Printed[i]) = 0
        /\ ExporterOfFactory(output) = SynthId("exports_1")
        /\ \A i \in 1..Len(ExecuteBody(output)) :
              ExporterCalls(ExecuteBody(output)[i]) >= ExporterCalls(ExecuteBody(Rewritten)[i])

\* the exporter calls the statement rewriter builds while the file is transformed
\* have the exporter of the file as callee
ExporterLiveAtRewrite ==
    Updated =>
        /\ ExporterOfFactory(Rewritten) = SynthId("exports_1")
        /\ \A i \in 1..Len(ExecuteBody(Rewritten)) : CallsOfUndefined(ExecuteBody(Rewritten)[i]) = 0

-----------------------------------------------------------------------------
EntryAssertion == "Debug.assert(!exportFunctionForFile)"

\* a fault has left the per-file fields set
Dirty == IsSome(input) /\ output.result = "fault" /\ IsSome(exportFunctionForFile)

\* the step is a call of transformSourceFile on a module file
ModuleFileNext == isExternalModule(Get(input')) \/ compilerOptions.isolatedModules

\* after the step the per-file fields hold what the worker had assigned for the
\* file when it faulted in collectDependencyGroups
FaultedFileKept ==
    (output'.result = "fault" /\ output'.fault # EntryAssertion) =>
        /\ currentSourceFile' = input'
        /\ externalImports' = Some(collectExternalModuleInfo(Get(input')).externalImports)
        /\ exportSpecifiers' = Some(collectExternalModuleInfo(Get(input')).exportSpecifiers)
        /\ hasExportStars' = Some(collectExternalModuleInfo(Get(input')).hasExportStars)
        /\ exportFunctionForFile' = Some(SynthId("exports_1"))
        /\ contextObjectForFile' = Some(SynthId("context_1"))

\* a file that is no module is returned as it is, and no per-file field changes
NonModuleFileUntouched ==
    ~ModuleFileNext =>
        /\ output'.result = "unchanged"
        /\ output'.updated = input'
        /\ UNCHANGED fileVars

(* C25 as stated: a fault of the worker after the exporter identifier has been   *)
(* generated leaves the per-file fields as they were at the fault, without       *)
(* reset; the next module file handed to the same transformer fails the entry    *)
(* assertion before any of its state is written; a file that is no module is     *)
(* returned unchanged and no per-file field is read or written.                  *)
FaultLeavesStateAndNothingIsWritten ==
    [][ /\ FaultedFileKept
        /\ NonModuleFileUntouched
        /\ (Dirty /\ ModuleFileNext) =>
              /\ output'.result = "fault"
              /\ output'.fault = EntryAssertion
              /\ UNCHANGED fileVars ]_vars

(* C25, amended: as above, but the next module file fails the entry assertion    *)
(* after currentSourceFile has been set to it: every other per-file field keeps  *)
(* the value the faulted file left.                                              *)
FaultLeavesStateDirty ==
    [][ /\ FaultedFileKept
        /\ NonModuleFileUntouched
        /\ (Dirty /\ ModuleFileNext) =>
              /\ output'.result = "fault"
              /\ output'.fault = EntryAssertion
              /\ currentSourceFile' = input'
              /\ UNCHANGED <<externalImports, exportSpecifiers, exportEquals, hasExportStars,
                             exportFunctionForFile, contextObjectForFile, exportedLocalNames,
                             exportedFunctionDeclarations>> ]_vars

\* import r = require(<not a string literal>); has faulted, then export var x = 5;
\* fails the entry assertion: the current file is the second one, the external
\* imports are still those of the first
EntryAssertionAfterFault ==
    /\ IsSome(input)
    /\ InputFile = SourceFile("l.ts", None, NoRenames, <<ExportVarX>>)
    /\ output.result = "fault"
    /\ output.fault = EntryAssertion
    /\ currentSourceFile = input
    /\ externalImports =
          Some(SourceFile("l.ts", None, NoRenames, <<ImportEqualsNonLiteral>>).statements)
    /\ exportFunctionForFile = Some(SynthId("exports_1"))

-----------------------------------------------------------------------------
\* the kinds of declaration getReferencedImportDeclaration can return
ImportBindingKinds == {"ImportClause", "ImportSpecifier", "NamespaceImport", "ImportEqualsDeclaration"}

\* what was emitted for the read of a in the statement y = a at position i
EmittedRead(i) == EmittedFor(i).kids[1].kids[2]

(* C26: identifier substitution is total over the kinds of import.  Whatever     *)
(* kind of declaration the resolver returns for an identifier (import clause,    *)
(* import specifier, namespace import, import-equals), substituteExpression-     *)
(* Identifier returns an expression and does not fault; an identifier bound to a *)
(* namespace import or to an import-equals alias becomes the hoisted local alias *)
(* variable of that import.                                                      *)
IdentifierSubstitutionTotal ==
    (IsSome(input) /\ output.result \in {"updated", "unchanged"}) =>
        \A i \in 1..Len(InputFile.statements) :
            IsReadOfA(InputFile.statements[i]) =>
                LET binding == getReferencedImportDeclaration(InputFile, Id("a"))
                IN  IsSome(binding) =>
                        /\ Get(binding).declaration.kind \in ImportBindingKinds
                        /\ EmittedRead(i).kind # "TypeError"
                        /\ Get(binding).declaration.kind \in {"NamespaceImport", "ImportEqualsDeclaration"} =>
                              EmittedRead(i) = Get(getLocalNameForExternalImport(Get(binding).importDeclaration))

\* for an import clause and an import specifier the substitution does not fault
ClauseAndSpecifierSubstitutionTotal ==
    (IsSome(input) /\ output.result \in {"updated", "unchanged"}) =>
        \A i \in 1..Len(InputFile.statements) :
            IsReadOfA(InputFile.statements[i]) =>
                LET binding == getReferencedImportDeclaration(InputFile, Id("a"))
                IN  (IsSome(binding) /\ Get(binding).declaration.kind \in {"ImportClause", "ImportSpecifier"}) =>
                        EmittedRead(i).kind \in {"PropertyAccessExpression", "ElementAccessExpression"}

-----------------------------------------------------------------------------
\* the first argument of the registration call
ModuleNameArgument(out) == RegisterCall(out).kids[2]

\* execute apart from its asterisk token: no name, no parameters, and as body the
\* rewritten statements that follow the prologue, in source order; the module
\* name literal is there only for a file that has a module name
ExecuteBodyAndModuleName ==
    /\ Execute(Rewritten).kind = "FunctionExpression"
    /\ Execute(Rewritten).text = ""
    /\ Execute(Rewritten).kids[1] = ParameterList(<<>>)
    /\ ExecuteBody(Rewritten) =
          Flatten([i \in 1..Len(InputFile.statements) |->
                      IF i <= PrologueLength(InputFile.statements) THEN <<>>
                      ELSE ExecutePartOf(InputFile, i)])
    /\ ModuleNameArgument(Rewritten) =
          IF IsSome(InputFile.moduleName) THEN Str(Get(InputFile.moduleName)) ELSE Undefined

(* C27: the execute property of the returned object is an ordinary function      *)
(* expression: no generator (asterisk) marker, no name, no parameters, and a     *)
(* body that is the rewritten top-level statements in source order, those of the *)
(* prologue left out; the registration call has a module name literal as first   *)
(* argument only when the file has an explicit module name.                      *)
ExecuteIsOrdinaryFunction ==
    Updated =>
        /\ ~HasModifier(Execute(Rewritten), "asteriskToken")
        /\ ExecuteBodyAndModuleName

\* all of it but the marker
ExecuteShapeApartFromMarker ==
    Updated => ExecuteBodyAndModuleName

====
